---- MODULE Spec2Model ----
(***************************************************************************)
(* Customer statements demo of blnk-demo: main / generateStatement of      *)
(* customer-statements/index.ts, the formatters of resources/formatters.ts *)
(* and the exporters of resources/customerStatementsExporters.ts.          *)
(*                                                                         *)
(* JavaScript strings are sequences of one-character strings, so that      *)
(* includes, toLowerCase, replace, escaping and decoding are computed      *)
(* character by character.                                                 *)
(***************************************************************************)
EXTENDS Integers, Sequences, FiniteSets, TLC

(***************************************************************************)
(* State of one run of customer-statements/index.ts.                       *)
(***************************************************************************)
VARIABLES
    env,                    \* process.env and process.argv, as main reads them
    store,                  \* the rows of blnk.transactions
    pc,                     \* where main is: at the await it waits on
    outputFormat,           \* main's outputFormat ("" before it is computed)
    transactions,           \* generateStatement's transactions
    accountName,            \* generateStatement's accountName
    snapshots,              \* <<periodStartBalance, periodEndBalance>> as fetched
    labels,                 \* the name resolved for each row's counterparty
    formattedTransactions,  \* generateStatement's formattedTransactions
    statement,              \* <<>> or <<the Statement main holds>>
    calls,                  \* the calls made to the three collaborators
    error,                  \* the error main's catch block got ("none" if none)
    stderr,                 \* what console.error wrote
    exitCode,               \* -1 while the process runs
    files,                  \* the files of the output directory
    doc,                    \* the PDFDocument being laid out by the PDF exporter
    dbEnded,                \* db.end() has been awaited
    clock,                  \* the current time, in seconds (webhook receiver)
    exchanges,              \* the requests the webhook receiver has answered
    stdout                  \* what console.log wrote (webhook receiver)

(***************************************************************************)
(* Bounds of the model.                                                    *)
(***************************************************************************)
\* Largest number of rows held by the transactions table.
MaxStore == 2
\* Longest free-text cell enumerated for the CSV exporter.
MaxCellLen == 2
\* Largest number of rows of a statement laid out by the PDF exporter.
MaxPdfRows == 48
\* Largest number of requests the webhook receiver answers in a run.
MaxRequests == 2
\* Number of steps the clock of the webhook receiver's host advances.
MaxTicks == 2
\* Longest reference, description and counterparty name of a row exported
\* to PDF.
MaxTextLen == 22
\* Latest second of the period bounds of two requests that share an output
\* directory.
MaxPeriodEnd == 2

(***************************************************************************)
(* Strings.                                                                *)
(***************************************************************************)
Digits == <<"0", "1", "2", "3", "4", "5", "6", "7", "8", "9">>

Upper == <<"A", "B", "C", "D", "E", "F", "G", "H", "I", "J", "K", "L", "M",
           "N", "O", "P", "Q", "R", "S", "T", "U", "V", "W", "X", "Y", "Z">>
Lower == <<"a", "b", "c", "d", "e", "f", "g", "h", "i", "j", "k", "l", "m",
           "n", "o", "p", "q", "r", "s", "t", "u", "v", "w", "x", "y", "z">>

lowerChar(c) ==
    IF \E k \in 1..Len(Upper) : Upper[k] = c
    THEN Lower[CHOOSE k \in 1..Len(Upper) : Upper[k] = c]
    ELSE c

\* String.prototype.toLowerCase
toLowerCase(s) == [i \in 1..Len(s) |-> lowerChar(s[i])]

\* String.prototype.includes
includes(s, sub) ==
    \E i \in 0..(Len(s) - Len(sub)) : SubSeq(s, i + 1, i + Len(sub)) = sub

\* substring(0, n) that keeps the whole text.
substring0_Whole(s, n) == s

\* String.prototype.substring(0, n)
substring0(s, n) == SubSeq(s, 1, IF n < Len(s) THEN n ELSE Len(s))

\* replace(":", "-"): the first colon only.
replaceColons_FirstOnly(s) ==
    [i \in 1..Len(s) |->
        IF s[i] = ":" /\ \A j \in 1..(i - 1) : s[j] # ":" THEN "-" ELSE s[i]]

\* String.prototype.replace(/:/g, "-")
replaceColons(s) == [i \in 1..Len(s) |-> IF s[i] = ":" THEN "-" ELSE s[i]]

RECURSIVE NatText(_)
\* Decimal digits of a natural number (String(n) for n >= 0).
NatText(n) == IF n < 10 THEN <<Digits[n + 1]>>
              ELSE NatText(n \div 10) \o <<Digits[(n % 10) + 1]>>

\* String(n).padStart(2, "0")
padStart2(n) == IF n < 10 THEN <<"0">> \o NatText(n) ELSE NatText(n)

RECURSIVE Join(_, _)
\* Array.prototype.join
Join(parts, sep) ==
    IF Len(parts) = 0 THEN <<>>
    ELSE IF Len(parts) = 1 THEN parts[1]
    ELSE parts[1] \o sep \o Join(Tail(parts), sep)

(***************************************************************************)
(* resources/formatters.ts                                                 *)
(***************************************************************************)
Abs(n) == IF n < 0 THEN 0 - n ELSE n

RECURSIVE GroupDigits(_)
\* en-US grouping of the integer part: a comma before every group of three.
GroupDigits(n) ==
    IF n < 1000 THEN NatText(n)
    ELSE GroupDigits(n \div 1000) \o <<",">>
         \o <<Digits[((n \div 100) % 10) + 1], Digits[((n \div 10) % 10) + 1],
              Digits[(n % 10) + 1]>>

\* Number.prototype.toLocaleString("en-US", {minimumFractionDigits: 2,
\* maximumFractionDigits: 2}) of the number num/den (den > 0): two fraction
\* digits, half-expand rounding of the magnitude, grouping, and the minus
\* sign of a negative number kept even when it rounds to zero.
toLocaleString2(num, den) ==
    LET hundredths == (2 * 100 * Abs(num) + den) \div (2 * den)
    IN  (IF num < 0 THEN <<"-">> ELSE <<>>)
        \o GroupDigits(hundredths \div 100) \o <<".">>
        \o <<Digits[((hundredths \div 10) % 10) + 1], Digits[(hundredths % 10) + 1]>>

\* toDisplayAmount without the division.
toDisplayAmount_Unscaled(amount, precision) == toLocaleString2(amount, 1)

\* toDisplayAmount(amount, precision): divides by precision, then formats.
toDisplayAmount(amount, precision) == toLocaleString2(amount, precision)

\* formatAmount dividing by the usual precision.
formatAmount_Scaled(amount) == toLocaleString2(amount, 100)

\* formatAmount(amount): formats the amount as it is.
formatAmount(amount) == toLocaleString2(amount, 1)

\* A transaction timestamp is a number of seconds after 2026-01-01T00:00:00Z,
\* below 60; formatTimestamp renders it as YYYY-MM-DD HH:mm:ss in UTC.
formatTimestamp(t) ==
    <<"2", "0", "2", "6", "-", "0", "1", "-", "0", "1", " ",
      "0", "0", ":", "0", "0", ":">> \o padStart2(t)

DR == <<"D", "R">>
CR == <<"C", "R">>
\* The outcome of a function that throws instead of returning.
Throws == <<"throw">>

\* getDirection with the two checks in the other order.
getDirection_DestinationFirst(transaction, balanceId) ==
    IF transaction.destination = balanceId THEN CR
    ELSE IF transaction.source = balanceId THEN DR
    ELSE Throws

\* getDirection refusing a balance that is both endpoints.
getDirection_RejectsBoth(transaction, balanceId) ==
    IF transaction.source = balanceId /\ transaction.destination = balanceId THEN Throws
    ELSE IF transaction.source = balanceId THEN DR
    ELSE IF transaction.destination = balanceId THEN CR
    ELSE Throws

\* getDirection: "DR" | "CR", or the throw.
getDirection(transaction, balanceId) ==
    IF transaction.source = balanceId THEN DR
    ELSE IF transaction.destination = balanceId THEN CR
    ELSE Throws

\* getCurrencyPrecision taking the first transaction whatever its currency.
getCurrencyPrecision_FirstRow(txs, currency) ==
    IF txs = <<>> \/ txs[1].precision = 0 THEN 100 ELSE txs[1].precision

\* getCurrencyPrecision: precision of the first transaction in the statement
\* currency; `transaction?.precision || 100` turns a missing transaction and
\* a precision of 0 into 100.
getCurrencyPrecision(txs, currency) ==
    LET matching == {i \in 1..Len(txs) : txs[i].currency = currency}
    IN  IF matching = {} THEN 100
        ELSE LET first == CHOOSE i \in matching : \A j \in matching : i <= j
             IN  IF txs[first].precision = 0 THEN 100 ELSE txs[first].precision

(***************************************************************************)
(* Values of the demo data.                                                *)
(***************************************************************************)
BalMain  == <<"b", "l", "n", "_", "1", "2", "3">>
BalWorld == <<"b", "l", "n", "_", "w">>
BalOther == <<"b", "l", "n", "_", "9">>
USD == <<"U", "S", "D">>
EUR == <<"E", "U", "R">>
Deposit    == <<"D", "e", "p", "o", "s", "i", "t">>
Withdrawal == <<"W", "i", "t", "h", "d", "r", "a", "w", "a", "l">>
WorldIndicator == <<"@", "W", "o", "r", "l", "d", "-", "U", "S", "D">>

\* An ISO-8601 instant of the first minute of 2026-01-01, as the period
\* bounds are given in STATEMENT_PERIOD_START / STATEMENT_PERIOD_END.
IsoText(t) ==
    <<"2", "0", "2", "6", "-", "0", "1", "-", "0", "1", "T",
      "0", "0", ":", "0", "0", ":">> \o padStart2(t) \o <<"Z">>

DigitValue(c) == CHOOSE d \in 0..9 : Digits[d + 1] = c

\* The instant an ISO text denotes (the cast Postgres applies to $3 and $4).
IsoTime(s) == 10 * DigitValue(s[18]) + DigitValue(s[19])

Tx(t, ref, desc, src, dst, amt, cur, prec, st) ==
    [effective_date |-> t, reference |-> ref, description |-> desc,
     source |-> src, destination |-> dst, amount |-> amt, currency |-> cur,
     precision |-> prec, status |-> st]

\* Rows the blnk.transactions table may hold, in storage order (which is
\* not the order of effective_date).
TxCatalogue ==
    << Tx(1, <<"r", "1">>, <<"c", "a", "s", "h">>, BalMain, BalWorld, 4000, USD, 100, "APPLIED"),
       Tx(0, <<"r", "2">>, <<"a", ",", "b">>, BalMain, BalMain, 250, USD, 1000, "APPLIED"),
       Tx(0, <<"r", "3">>, <<"p", "a", "y">>, BalWorld, BalMain, 10000, USD, 100, "APPLIED"),
       Tx(1, <<"r", "4">>, <<"\"", "x", "\"">>, BalOther, BalMain, 1234567, USD, 0, "APPLIED"),
       Tx(2, <<"r", "5">>, <<>>, BalWorld, BalMain, 900, USD, 100, "APPLIED"),
       Tx(1, <<"r", "6">>, <<"e">>, BalWorld, BalMain, 700, EUR, 100, "APPLIED"),
       Tx(1, <<"r", "7">>, <<"q">>, BalWorld, BalMain, 800, USD, 100, "QUEUED"),
       Tx(1, <<"r", "8">>, <<"o">>, BalWorld, BalOther, 500, USD, 100, "APPLIED") >>

RECURSIVE Pick(_, _)
\* The rows of the catalogue with index in S, in storage order.
Pick(S, i) ==
    IF i > Len(TxCatalogue) THEN <<>>
    ELSE (IF i \in S THEN <<TxCatalogue[i]>> ELSE <<>>) \o Pick(S, i + 1)

Stores ==
    {Pick(S, 1) : S \in {T \in SUBSET (1..Len(TxCatalogue)) : Cardinality(T) <= MaxStore}}

\* Values of STATEMENT_BALANCE_ID, STATEMENT_PERIOD_START/END and
\* STATEMENT_CURRENCY; <<>> is an unset (or empty) variable, which `!x` and
\* `x || d` treat alike.
EnvBalanceIds == {<<>>, BalMain}
EnvPeriods    == {<<>>, IsoText(0), IsoText(2)}
EnvCurrencies == {<<>>, EUR}
\* Values of the --format= argument; <<>> is no argument.
FormatArgs == {<<>>, <<"p", "d", "f">>, <<"x", "m", "l">>}

Snapshot(b, c, d) == [balance |-> b, credit_balance |-> c, debit_balance |-> d]

\* Answers of GET /balances/:id/at.
Snapshots == {Snapshot(0, 0, 0), Snapshot(6000, 10000, 4000), Snapshot(0 - 1505, 500, 2005)}

(***************************************************************************)
(* JavaScript values returned by the search endpoint.                      *)
(***************************************************************************)
JsString(s) == [t |-> "string", s |-> s, n |-> 0]
JsNumber(n) == [t |-> "number", s |-> <<>>, n |-> n]
JsUndefined == [t |-> "undefined", s |-> <<>>, n |-> 0]

Truthy(v) == \/ v.t = "string" /\ v.s # <<>>
             \/ v.t = "number" /\ v.n # 0

\* The text a template literal `${v}` produces.
TemplateText(v) ==
    CASE v.t = "string" -> v.s
      [] v.t = "number" -> NatText(v.n)
      [] OTHER -> <<"u", "n", "d", "e", "f", "i", "n", "e", "d">>

Hit(hasIdentities, first, last, indicator) ==
    [hasIdentities |-> hasIdentities, first_name |-> first, last_name |-> last,
     indicator |-> indicator]

SearchResponse(throws, hitsIsArray, hits) ==
    [throws |-> throws, hitsIsArray |-> hitsIsArray, hits |-> hits]

\* Outcomes of POST /search/balances: a transport error, no hits, a `hits`
\* that is no array, a hit with both names, a hit with an indicator only,
\* a hit without names or indicator, a hit whose indicator is a number.
SearchResponses ==
    { SearchResponse(TRUE, TRUE, <<>>),
      SearchResponse(FALSE, TRUE, <<>>),
      SearchResponse(FALSE, FALSE, <<>>),
      SearchResponse(FALSE, TRUE,
          <<Hit(TRUE, JsString(<<"A", "l">>), JsString(<<"B", "o">>), JsUndefined)>>),
      SearchResponse(FALSE, TRUE,
          <<Hit(TRUE, JsString(<<"A", "l">>), JsUndefined, JsString(WorldIndicator))>>),
      SearchResponse(FALSE, TRUE, <<Hit(FALSE, JsUndefined, JsUndefined, JsUndefined)>>),
      SearchResponse(FALSE, TRUE, <<Hit(FALSE, JsUndefined, JsUndefined, JsNumber(42))>>) }

\* Outcomes of the search for the statement's own balance (line 64): a
\* transport error, and a hit with both names.
AccountSearchResponses ==
    { SearchResponse(TRUE, TRUE, <<>>),
      SearchResponse(FALSE, TRUE,
          <<Hit(TRUE, JsString(<<"A", "l">>), JsString(<<"B", "o">>), JsUndefined)>>) }

(***************************************************************************)
(* customer-statements/index.ts: the helpers of generateStatement.         *)
(***************************************************************************)
\* fetchBalanceDisplayName, given the outcome of its search call.  The
\* whole body is inside try/catch: a transport error and the TypeError of
\* hits[0].document on a `hits` that is no array both return balanceId.
fetchBalanceDisplayName(balanceId, response) ==
    IF response.throws THEN JsString(balanceId)
    ELSE IF ~response.hitsIsArray THEN JsString(balanceId)
    ELSE IF Len(response.hits) = 0 THEN JsString(balanceId)
    ELSE LET balance == response.hits[1]
         IN  IF /\ balance.hasIdentities
                /\ Truthy(balance.first_name)
                /\ Truthy(balance.last_name)
             THEN JsString(TemplateText(balance.first_name) \o <<" ">>
                           \o TemplateText(balance.last_name))
             ELSE IF Truthy(balance.indicator) THEN balance.indicator
             ELSE JsString(balanceId)

\* getCounterpartyId refusing a balance that is both endpoints.
getCounterpartyId_RejectsBoth(transaction, balanceId) ==
    IF transaction.source = balanceId /\ transaction.destination = balanceId THEN Throws
    ELSE IF transaction.source = balanceId THEN transaction.destination
    ELSE IF transaction.destination = balanceId THEN transaction.source
    ELSE Throws

\* getCounterpartyId returning the endpoint that matched.
getCounterpartyId_SameSide(transaction, balanceId) ==
    IF transaction.source = balanceId THEN transaction.source
    ELSE IF transaction.destination = balanceId THEN transaction.destination
    ELSE Throws

\* getCounterpartyId: the other endpoint, or the throw.
getCounterpartyId(transaction, balanceId) ==
    IF transaction.source = balanceId THEN transaction.destination
    ELSE IF transaction.destination = balanceId THEN transaction.source
    ELSE Throws

RECURSIVE InsertByDate(_, _)
\* Insertion of a row after every row that is not later (ORDER BY
\* effective_date ASC, ties in storage order).
InsertByDate(sorted, tx) ==
    IF sorted = <<>> THEN <<tx>>
    ELSE IF sorted[1].effective_date <= tx.effective_date
         THEN <<sorted[1]>> \o InsertByDate(Tail(sorted), tx)
         ELSE <<tx>> \o sorted

RECURSIVE OrderByDate(_)
OrderByDate(rows) ==
    IF rows = <<>> THEN <<>>
    ELSE InsertByDate(OrderByDate(SubSeq(rows, 1, Len(rows) - 1)), rows[Len(rows)])

\* The WHERE clause without its two conditions on effective_date.
MatchesQuery_AnyDate(tx, balanceId, currency, periodStart, periodEnd) ==
    /\ tx.status = "APPLIED"
    /\ tx.currency = currency
    /\ (tx.source = balanceId \/ tx.destination = balanceId)

\* The WHERE clause with the end of the period included.
MatchesQuery_EndInclusive(tx, balanceId, currency, periodStart, periodEnd) ==
    /\ tx.status = "APPLIED"
    /\ tx.currency = currency
    /\ (tx.source = balanceId \/ tx.destination = balanceId)
    /\ tx.effective_date >= IsoTime(periodStart)
    /\ tx.effective_date <= IsoTime(periodEnd)

\* The WHERE clause of queryTransactions.
MatchesQuery(tx, balanceId, currency, periodStart, periodEnd) ==
    /\ tx.status = "APPLIED"
    /\ tx.currency = currency
    /\ (tx.source = balanceId \/ tx.destination = balanceId)
    /\ tx.effective_date >= IsoTime(periodStart)
    /\ tx.effective_date < IsoTime(periodEnd)

\* queryTransactions: the rows the SELECT returns from a table.
queryTransactions(table, balanceId, currency, periodStart, periodEnd) ==
    OrderByDate(SelectSeq(table,
        LAMBDA tx : MatchesQuery(tx, balanceId, currency, periodStart, periodEnd)))

\* formatRow with the two tests of the placeholder in the other order.
formatRow_DestinationFirst(tx, balanceId, label) ==
    LET counterpartyId == getCounterpartyId(tx, balanceId)
    IN  [timestamp |-> formatTimestamp(tx.effective_date),
         reference |-> tx.reference,
         description |-> tx.description,
         direction |-> getDirection(tx, balanceId),
         counterparty |->
            IF includes(toLowerCase(label), <<"w", "o", "r", "l", "d">>)
            THEN IF tx.destination = counterpartyId THEN Withdrawal
                 ELSE IF tx.source = counterpartyId THEN Deposit
                 ELSE label
            ELSE label,
         amount |-> formatAmount(tx.amount),
         currency |-> tx.currency]

\* Lines 113-130 of generateStatement for one transaction, once the name
\* lookup of its counterparty has answered with `label` (a string).
formatRow(tx, balanceId, label) ==
    LET direction == getDirection(tx, balanceId)
        counterpartyId == getCounterpartyId(tx, balanceId)
        counterparty ==
            IF includes(toLowerCase(label), <<"w", "o", "r", "l", "d">>)
            THEN IF tx.source = counterpartyId THEN Deposit
                 ELSE IF tx.destination = counterpartyId THEN Withdrawal
                 ELSE label
            ELSE label
    IN  [timestamp |-> formatTimestamp(tx.effective_date),
         reference |-> tx.reference,
         description |-> tx.description,
         direction |-> direction,
         counterparty |-> counterparty,
         amount |-> formatAmount(tx.amount),
         currency |-> tx.currency]

RECURSIVE SumAmounts(_, _)
\* The sum of the amounts of the transactions whose destination (side =
\* "destination") or source (side = "source") is the statement's balance.
SumAmounts(txs, side) ==
    IF txs = <<>> THEN 0
    ELSE (IF txs[1][side] = env.balanceId THEN txs[1].amount ELSE 0)
         + SumAmounts(Tail(txs), side)

\* totalCredits re-aggregated from the fetched transactions.
totalCredits_FromRows(periodStartBalance, periodEndBalance) ==
    SumAmounts(transactions, "destination")

\* Lines 86 and 94: the period totals.
totalCredits(periodStartBalance, periodEndBalance) ==
    periodEndBalance.credit_balance - periodStartBalance.credit_balance

totalDebits(periodStartBalance, periodEndBalance) ==
    periodEndBalance.debit_balance - periodStartBalance.debit_balance

\* transaction_count taken from the table instead of the fetched list.
transactionCount_Stored(txs) == Len(store)

\* Line 144: totals.transaction_count.
transactionCount(txs) == Len(txs)

\* assembleStatement with the closing balance and the totals re-derived from
\* the amounts of the fetched transactions.
assembleStatement_FromRows(balanceId, currency, name, periodStart, periodEnd, periodStartBalance, periodEndBalance, txs, rows) ==
    LET precision == getCurrencyPrecision(txs, currency)
        credits == SumAmounts(txs, "destination")
        debits == SumAmounts(txs, "source")
    IN  [balance_id |-> balanceId,
         currency |-> currency,
         account_name |-> name,
         period |-> [start |-> periodStart, end |-> periodEnd],
         opening_balance |-> toDisplayAmount(periodStartBalance.balance, precision),
         closing_balance |-> toDisplayAmount(
             periodStartBalance.balance + credits - debits, precision),
         totals |-> [credits |-> toDisplayAmount(credits, precision),
                     debits |-> toDisplayAmount(debits, precision),
                     transaction_count |-> transactionCount(txs)],
         transactions |-> rows]

\* Lines 134-147: the Statement value.
assembleStatement(balanceId, currency, name, periodStart, periodEnd, periodStartBalance, periodEndBalance, txs, rows) ==
    LET precision == getCurrencyPrecision(txs, currency)
    IN  [balance_id |-> balanceId,
         currency |-> currency,
         account_name |-> name,
         period |-> [start |-> periodStart, end |-> periodEnd],
         opening_balance |-> toDisplayAmount(periodStartBalance.balance, precision),
         closing_balance |-> toDisplayAmount(periodEndBalance.balance, precision),
         totals |-> [credits |-> toDisplayAmount(
                         totalCredits(periodStartBalance, periodEndBalance), precision),
                     debits |-> toDisplayAmount(
                         totalDebits(periodStartBalance, periodEndBalance), precision),
                     transaction_count |-> transactionCount(txs)],
         transactions |-> rows]

(***************************************************************************)
(* resources/customerStatementsExporters.ts                                *)
(***************************************************************************)
CsvHeaders ==
    << <<"T", "i", "m", "e", "s", "t", "a", "m", "p">>,
       <<"R", "e", "f", "e", "r", "e", "n", "c", "e">>,
       <<"D", "e", "s", "c", "r", "i", "p", "t", "i", "o", "n">>,
       <<"D", "i", "r", "e", "c", "t", "i", "o", "n">>,
       <<"C", "o", "u", "n", "t", "e", "r", "p", "a", "r", "t", "y">>,
       <<"A", "m", "o", "u", "n", "t">>,
       <<"C", "u", "r", "r", "e", "n", "c", "y">> >>

RECURSIVE doubleQuotes(_)
\* s.replace(/"/g, '""')
doubleQuotes(s) ==
    IF s = <<>> THEN <<>>
    ELSE (IF s[1] = "\"" THEN <<"\"", "\"">> ELSE <<s[1]>>) \o doubleQuotes(Tail(s))

\* needsQuotes with a pattern that leaves out the carriage return.
needsQuotes_NoCR(s) == \E i \in 1..Len(s) : s[i] \in {"\"", ",", "\n"}

\* /[",\n\r]/.test(s)
needsQuotes(s) == \E i \in 1..Len(s) : s[i] \in {"\"", ",", "\n", "\r"}

\* escapeCell wrapping every field in quotes.
escapeCell_AlwaysQuoted(s) == <<"\"">> \o doubleQuotes(s) \o <<"\"">>

\* Lines 23-28: the escaped form of a cell.
escapeCell(s) ==
    IF needsQuotes(s) THEN <<"\"">> \o doubleQuotes(s) \o <<"\"">> ELSE doubleQuotes(s)

\* The seven cells of a row, in column order.
csvCells(tx) ==
    <<tx.timestamp, tx.reference, tx.description, tx.direction,
      tx.counterparty, tx.amount, tx.currency>>

csvLine(cells) == Join([i \in 1..Len(cells) |-> escapeCell(cells[i])], <<",">>)

\* The text exportCustomerStatementToCSV writes.
csvText(st) ==
    LET lines == <<Join(CsvHeaders, <<",">>)>>
                 \o [i \in 1..Len(st.transactions) |->
                        csvLine(csvCells(st.transactions[i]))]
    IN  Join(lines, <<"\n">>) \o <<"\n">>

\* The file name without the end of the period.
fileName_NoPeriodEnd(st, ext) ==
    replaceColons(<<"s", "t", "a", "t", "e", "m", "e", "n", "t", "_">>
                  \o st.balance_id \o <<"_">> \o st.period.start \o <<".">> \o ext)

\* The file name of both exporters, ext being "csv" or "pdf".
fileName(st, ext) ==
    replaceColons(<<"s", "t", "a", "t", "e", "m", "e", "n", "t", "_">>
                  \o st.balance_id \o <<"_">> \o st.period.start
                  \o <<"_">> \o st.period.end \o <<".">> \o ext)

\* s.split(" ")[0]
beforeSpace(s) ==
    IF \E i \in 1..Len(s) : s[i] = " "
    THEN SubSeq(s, 1, (CHOOSE i \in 1..Len(s) :
                         s[i] = " " /\ \A j \in 1..(i - 1) : s[j] # " ") - 1)
    ELSE s

\* The cells exportCustomerStatementToPDF draws for a row.
pdfRowData(tx) ==
    <<beforeSpace(tx.timestamp), substring0(tx.reference, 20),
      substring0(tx.description, 20), tx.direction,
      substring0(tx.counterparty, 15), tx.amount, tx.currency>>

\* Lines 112, 113 and 120 of the PDF exporter.
rowHeight == 15
pageBottom == 750
newTableTop == 50

\* Values of doc.y when the table starts (line 98): where the text above
\* the table has left the cursor on the first page.  TableTops are the
\* positions of a run of main (room for many rows, room for one row);
\* AllTableTops add the positions with room for exactly two rows and for
\* none.
TableTops == {305, 701}
AllTableTops == TableTops \cup {700, 716}

\* No document: the PDF exporter has not been called.
NoDoc == [page |-> 0, y |-> 0, headers |-> <<>>, rows |-> <<>>]

\* Lines 98-111: the header row is drawn at tableTop on the first page and
\* the first row is due 20 below it.
pdfTableStart(tableTop) ==
    [page |-> 1, y |-> tableTop + 20,
     headers |-> <<[page |-> 1, y |-> tableTop]>>, rows |-> <<>>]

\* The page test without the height of the row.
needsNewPage_IgnoresRowHeight(y) == y > pageBottom

\* Line 116: the row does not fit above pageBottom.
needsNewPage(y) == y + rowHeight > pageBottom

\* Lines 116-149: one turn of the forEach: a new page with its header row
\* when the row does not fit, then the row's cells at y, then y moves on.
pdfPlaceRow(document, tx) ==
    LET d == IF needsNewPage(document.y)
             THEN [document EXCEPT !.page = document.page + 1,
                              !.headers = Append(document.headers,
                                  [page |-> document.page + 1, y |-> newTableTop]),
                              !.y = newTableTop + 20]
             ELSE document
    IN  [d EXCEPT !.rows = Append(d.rows,
                      [page |-> d.page, y |-> d.y, cells |-> pdfRowData(tx)]),
                  !.y = d.y + rowHeight]

vars == <<env, store, pc, outputFormat, transactions, accountName, snapshots,
          labels, formattedTransactions, statement, calls, error, stderr, exitCode,
          files, doc, dbEnded, clock, exchanges, stdout>>

gen == <<transactions, accountName, snapshots, labels, formattedTransactions, statement>>

\* The state of the webhook receiver, which a statement run leaves alone.
web == <<clock, exchanges, stdout>>

\* No webhook receiver is running.
ServerOff ==
    /\ clock = 0
    /\ exchanges = <<>>
    /\ stdout = <<>>

BALANCE_ID   == env.balanceId
CURRENCY     == IF env.currency = <<>> THEN USD ELSE env.currency
PERIOD_START == env.periodStart
PERIOD_END   == env.periodEnd

Call(op, arg) == [op |-> op, arg |-> arg]

\* The state in which main is called.
InitRun ==
    /\ pc = "main"
    /\ outputFormat = ""
    /\ transactions = <<>>
    /\ accountName = JsUndefined
    /\ snapshots = <<>>
    /\ labels = <<>>
    /\ formattedTransactions = <<>>
    /\ statement = <<>>
    /\ calls = <<>>
    /\ error = "none"
    /\ stderr = <<>>
    /\ exitCode = 0 - 1
    /\ files = {}
    /\ doc = NoDoc
    /\ dbEnded = FALSE
    /\ ServerOff

Init ==
    /\ env \in [balanceId : EnvBalanceIds, periodStart : EnvPeriods,
                periodEnd : EnvPeriods, currency : EnvCurrencies,
                formatArg : FormatArgs]
    /\ store \in Stores
    /\ InitRun

\* The catch block without its console.error calls.
Catch_Silent(kind, hasResponse) ==
    /\ error' = kind
    /\ stderr' = stderr
    /\ exitCode' = 1
    /\ pc' = "exited"

\* main's catch block, lines 308-313: the message, the API payload when the
\* error carries a response, then process.exit(1), which ends the process
\* at once (the finally block is not run).
Catch(kind, hasResponse) ==
    /\ error' = kind
    /\ stderr' = stderr \o <<"Error generating statement">>
                 \o (IF hasResponse THEN <<"API Error">> ELSE <<>>)
    /\ exitCode' = 1
    /\ pc' = "exited"

\* The configuration check without its last test.
configMissing_NoPeriodEnd(e) == e.balanceId = <<>> \/ e.periodStart = <<>>

\* Lines 256-264: !BALANCE_ID, !PERIOD_START or !PERIOD_END.
configMissing(e) == e.balanceId = <<>> \/ e.periodStart = <<>> \/ e.periodEnd = <<>>

\* Lines 256-264: a required variable is missing.
MainConfigError ==
    /\ pc = "main"
    /\ configMissing(env)
    /\ Catch("config", FALSE)
    /\ UNCHANGED <<env, store, outputFormat, gen, calls, files, doc, dbEnded, web>>

\* Lines 267-269.
formatOf(formatArg) == IF formatArg = <<>> THEN <<"c", "s", "v">> ELSE formatArg
outputFormatOf(formatArg) ==
    IF formatOf(formatArg) = <<"p", "d", "f">> THEN "pdf" ELSE "csv"

\* Lines 256-290 and 49: the configuration is complete; main computes the
\* output format and generateStatement sends the transaction query.
MainBegin ==
    /\ pc = "main"
    /\ ~configMissing(env)
    /\ outputFormat' = outputFormatOf(env.formatArg)
    /\ IF outputFormat' # "csv" /\ outputFormat' # "pdf"
       THEN /\ Catch("invalid_format", FALSE)
            /\ UNCHANGED calls
       ELSE /\ calls' = Append(calls, Call("query", BALANCE_ID))
            /\ pc' = "query"
            /\ UNCHANGED <<error, stderr, exitCode>>
    /\ UNCHANGED <<env, store, gen, files, doc, dbEnded, web>>

\* The emptiness test left out.
noTransactions_Never(txs) == FALSE

\* Line 51: transactions.length === 0.
noTransactions(txs) == Len(txs) = 0

\* Lines 49-64: the query answers (or fails); an empty result throws, any
\* other result is followed by the name lookup of the account.
QueryAnswers(ok, rows) ==
    IF ~ok
    THEN /\ Catch("query", FALSE)
         /\ UNCHANGED <<transactions, calls>>
    ELSE /\ transactions' = rows
         /\ IF noTransactions(transactions')
            THEN /\ Catch("no_transactions", FALSE)
                 /\ UNCHANGED calls
            ELSE /\ calls' = Append(calls, Call("search", BALANCE_ID))
                 /\ pc' = "accountName"
                 /\ UNCHANGED <<error, stderr, exitCode>>

\* The database answers with the rows the SELECT denotes.
QueryReturns ==
    /\ pc = "query"
    /\ \E ok \in BOOLEAN :
         QueryAnswers(ok, queryTransactions(store, BALANCE_ID, CURRENCY,
                                           PERIOD_START, PERIOD_END))
    /\ UNCHANGED <<env, store, outputFormat, accountName, snapshots, labels,
                   formattedTransactions, statement, files, doc, dbEnded, web>>

\* Lines 64-65: the account name resolves; the first snapshot is requested.
AccountNameReturns ==
    /\ pc = "accountName"
    /\ \E response \in AccountSearchResponses :
         accountName' = fetchBalanceDisplayName(BALANCE_ID, response)
    /\ calls' = Append(calls, Call("snapshot", PERIOD_START))
    /\ pc' = "periodStartBalance"
    /\ UNCHANGED <<env, store, outputFormat, transactions, snapshots, labels,
                   formattedTransactions, statement, error, stderr, exitCode,
                   files, doc, dbEnded, web>>

\* The row loop without the name lookup of the counterparty.
BeginRow_NoLookup(i) ==
    LET tx == transactions[i]
    IN  IF \/ getDirection(tx, BALANCE_ID) = Throws
           \/ getCounterpartyId(tx, BALANCE_ID) = Throws
        THEN /\ Catch("ambiguous", FALSE)
             /\ UNCHANGED calls
        ELSE /\ UNCHANGED calls
             /\ pc' = "counterparty"
             /\ UNCHANGED <<error, stderr, exitCode>>

\* Lines 112-115 for transactions[i]: direction and counterparty id are
\* computed (either may throw), then the counterparty's name is looked up.
BeginRow(i) ==
    LET tx == transactions[i]
    IN  IF \/ getDirection(tx, BALANCE_ID) = Throws
           \/ getCounterpartyId(tx, BALANCE_ID) = Throws
        THEN /\ Catch("ambiguous", FALSE)
             /\ UNCHANGED calls
        ELSE /\ calls' = Append(calls, Call("search", getCounterpartyId(tx, BALANCE_ID)))
             /\ pc' = "counterparty"
             /\ UNCHANGED <<error, stderr, exitCode>>

\* Lines 65-66: the snapshot at periodStart answers (or its fetch fails,
\* with or without an HTTP response); the snapshot at periodEnd is requested.
PeriodStartBalanceReturns ==
    /\ pc = "periodStartBalance"
    /\ \/ /\ \E hasResponse \in BOOLEAN : Catch("snapshot", hasResponse)
          /\ UNCHANGED <<snapshots, calls>>
       \/ /\ \E snapshot \in Snapshots : snapshots' = <<snapshot>>
          /\ calls' = Append(calls, Call("snapshot", PERIOD_END))
          /\ pc' = "periodEndBalance"
          /\ UNCHANGED <<error, stderr, exitCode>>
    /\ UNCHANGED <<env, store, outputFormat, transactions, accountName, labels,
                   formattedTransactions, statement, files, doc, dbEnded, web>>

\* Lines 66-115: the snapshot at periodEnd answers (or fails); the totals
\* and the precision are computed and the row loop starts.
PeriodEndBalanceReturns ==
    /\ pc = "periodEndBalance"
    /\ \/ /\ \E hasResponse \in BOOLEAN : Catch("snapshot", hasResponse)
          /\ UNCHANGED <<snapshots, calls>>
       \/ /\ \E snapshot \in Snapshots : snapshots' = Append(snapshots, snapshot)
          /\ BeginRow(1)
    /\ UNCHANGED <<env, store, outputFormat, transactions, accountName, labels,
                   formattedTransactions, statement, files, doc, dbEnded, web>>

\* Lines 115-148 and 290-304: a counterparty name resolves.  toLowerCase on
\* a label that is no string is a TypeError.  Otherwise the row is pushed;
\* then either the next row starts, or the Statement is assembled and
\* handed to the exporter main chose.
CounterpartyReturns ==
    /\ pc = "counterparty"
    /\ \E response \in SearchResponses :
         LET i == Len(formattedTransactions) + 1
             tx == transactions[i]
             label == fetchBalanceDisplayName(getCounterpartyId(tx, BALANCE_ID), response)
         IN  IF label.t # "string"
             THEN /\ Catch("type_error", FALSE)
                  /\ UNCHANGED <<labels, formattedTransactions, statement, calls>>
             ELSE /\ labels' = Append(labels, label.s)
                  /\ formattedTransactions' =
                        Append(formattedTransactions, formatRow(tx, BALANCE_ID, label.s))
                  /\ IF i < Len(transactions)
                     THEN /\ BeginRow(i + 1)
                          /\ UNCHANGED statement
                     ELSE /\ statement' = <<assembleStatement(BALANCE_ID, CURRENCY,
                                 accountName, PERIOD_START, PERIOD_END, snapshots[1],
                                 snapshots[2], transactions, formattedTransactions')>>
                          /\ pc' = "export"
                          /\ UNCHANGED <<calls, error, stderr, exitCode>>
    /\ UNCHANGED <<env, store, outputFormat, transactions, accountName, snapshots,
                   files, doc, dbEnded, web>>

\* A written file: its name, its format, the text of a CSV file, and of a
\* PDF file the rows and the header rows drawn, each with its page and y.
File(name, format, csv, pdf, pdfHeaders) ==
    [name |-> name, format |-> format, csv |-> csv, pdf |-> pdf, pdfHeaders |-> pdfHeaders]

\* What writing `file` leaves in the output directory.
WriteFile(dir, file) == {f \in dir : f.name # file.name} \cup {file}

\* The CSV exporter followed by the PDF exporter (a missing `else`).
exportCustomerStatementToCSV_ThenPDF(dir, st) ==
    WriteFile(WriteFile(dir, File(fileName(st, <<"c", "s", "v">>), "csv", csvText(st), <<>>, <<>>)),
              File(fileName(st, <<"p", "d", "f">>), "pdf", <<>>, <<>>, <<>>))

exportCustomerStatementToCSV(dir, st) ==
    WriteFile(dir, File(fileName(st, <<"c", "s", "v">>), "csv", csvText(st), <<>>, <<>>))

\* The file exportCustomerStatementToPDF leaves once the document `d` it has
\* laid out is ended and its stream has finished.
exportCustomerStatementToPDF(dir, st, d) ==
    WriteFile(dir, File(fileName(st, <<"p", "d", "f">>), "pdf", <<>>, d.rows, d.headers))

\* Lines 298-317 with the CSV exporter: the file is written, or the exporter
\* fails with an I/O error; after a success the finally block calls db.end().
ExportReturns ==
    /\ pc = "export"
    /\ outputFormat # "pdf"
    /\ \/ /\ files' = exportCustomerStatementToCSV(files, statement[1])
          /\ pc' = "dbEnd"
          /\ UNCHANGED <<error, stderr, exitCode>>
       \/ /\ Catch("export_io", FALSE)
          /\ UNCHANGED files
    /\ UNCHANGED <<env, store, outputFormat, gen, calls, doc, dbEnded, web>>

\* Lines 300-301 and 59-111 of the PDF exporter: the output directory is
\* made (or mkdirSync throws), the texts above the table are written, which
\* leaves doc.y at tableTop, and the header row is drawn.
PdfTableStartsAt(tops) ==
    /\ pc = "export"
    /\ outputFormat = "pdf"
    /\ \/ /\ \E tableTop \in tops : doc' = pdfTableStart(tableTop)
          /\ pc' = "pdfRows"
          /\ UNCHANGED <<error, stderr, exitCode>>
       \/ /\ Catch("export_io", FALSE)
          /\ UNCHANGED doc
    /\ UNCHANGED <<env, store, outputFormat, gen, calls, files, dbEnded, web>>

PdfTableStarts == PdfTableStartsAt(TableTops)

\* Lines 115-150: the next turn of statement.transactions.forEach.
PdfPlaceRow ==
    /\ pc = "pdfRows"
    /\ Len(doc.rows) < Len(statement[1].transactions)
    /\ doc' = pdfPlaceRow(doc, statement[1].transactions[Len(doc.rows) + 1])
    /\ UNCHANGED <<env, store, pc, outputFormat, gen, calls, error, stderr, exitCode,
                   files, dbEnded, web>>

\* Lines 152-157 and 306-317: the loop is over and the document is ended;
\* its stream finishes (the file is written) or emits an error.
PdfExportReturns ==
    /\ pc = "pdfRows"
    /\ Len(doc.rows) = Len(statement[1].transactions)
    /\ \/ /\ files' = exportCustomerStatementToPDF(files, statement[1], doc)
          /\ pc' = "dbEnd"
          /\ UNCHANGED <<error, stderr, exitCode>>
       \/ /\ Catch("export_io", FALSE)
          /\ UNCHANGED files
    /\ UNCHANGED <<env, store, outputFormat, gen, calls, doc, dbEnded, web>>

\* Lines 316-317: db.end() resolves and the process ends.
DbEndReturns ==
    /\ pc = "dbEnd"
    /\ dbEnded' = TRUE
    /\ exitCode' = 0
    /\ pc' = "exited"
    /\ UNCHANGED <<env, store, outputFormat, gen, calls, error, stderr, files, doc, web>>

Next ==
    \/ MainConfigError
    \/ MainBegin
    \/ QueryReturns
    \/ AccountNameReturns
    \/ PeriodStartBalanceReturns
    \/ PeriodEndBalanceReturns
    \/ CounterpartyReturns
    \/ ExportReturns
    \/ PdfTableStarts
    \/ PdfPlaceRow
    \/ PdfExportReturns
    \/ DbEndReturns

Spec == Init /\ [][Next]_vars

(***************************************************************************)
(* The same run over an inconsistent transaction log: the query may answer *)
(* with any rows of the catalogue, also rows of another balance, currency, *)
(* status or period, not ordered by date.  This is the upstream            *)
(* inconsistency the throw of getDirection / getCounterpartyId guards      *)
(* against.                                                                *)
(***************************************************************************)
InitAnyRows ==
    /\ env \in [balanceId : EnvBalanceIds, periodStart : {IsoText(0)},
                periodEnd : {IsoText(2)}, currency : {<<>>}, formatArg : FormatArgs]
    /\ store = <<>>
    /\ InitRun

QueryReturnsAnyRows ==
    /\ pc = "query"
    /\ \E ok \in BOOLEAN, rows \in Stores : QueryAnswers(ok, rows)
    /\ UNCHANGED <<env, store, outputFormat, accountName, snapshots, labels,
                   formattedTransactions, statement, files, doc, dbEnded, web>>

NextAnyRows ==
    \/ MainConfigError
    \/ MainBegin
    \/ QueryReturnsAnyRows
    \/ AccountNameReturns
    \/ PeriodStartBalanceReturns
    \/ PeriodEndBalanceReturns
    \/ CounterpartyReturns
    \/ ExportReturns
    \/ PdfTableStarts
    \/ PdfPlaceRow
    \/ PdfExportReturns
    \/ DbEndReturns

SpecAnyRows == InitAnyRows /\ [][NextAnyRows]_vars

(***************************************************************************)
(* The run over an inconsistent transaction log for a statement in USD or  *)
(* in EUR, so that the fetched list may begin with transactions of         *)
(* another currency than the statement's.                                  *)
(***************************************************************************)
InitAnyCurrency ==
    /\ env \in [balanceId : {BalMain}, periodStart : {IsoText(0)},
                periodEnd : {IsoText(2)}, currency : EnvCurrencies, formatArg : {<<>>}]
    /\ store = <<>>
    /\ InitRun

NextAnyCurrency ==
    \/ MainBegin
    \/ QueryReturnsAnyRows
    \/ AccountNameReturns
    \/ PeriodStartBalanceReturns
    \/ PeriodEndBalanceReturns
    \/ CounterpartyReturns
    \/ ExportReturns
    \/ DbEndReturns

SpecAnyCurrency == InitAnyCurrency /\ [][NextAnyCurrency]_vars

(***************************************************************************)
(* The exporters applied to statements whose free-text cells range over    *)
(* every short text of plain and special characters.                       *)
(***************************************************************************)
CellChars == {"a", " ", ",", "\"", "\n", "\r"}

\* Every text of at most n characters.
Cells(n) == UNION {[1..k -> CellChars] : k \in 0..n}

\* A row as generateStatement produces it (timestamp, direction and amount
\* in their formats) with the given reference, description, counterparty
\* and currency.
RowOf(ref, desc, dir, cp, cur) ==
    [timestamp |-> formatTimestamp(0), reference |-> ref, description |-> desc,
     direction |-> dir, counterparty |-> cp, amount |-> formatAmount(1000),
     currency |-> cur]

StatementOf(rows) ==
    [balance_id |-> BalMain,
     currency |-> USD,
     account_name |-> JsString(BalMain),
     period |-> [start |-> IsoText(0), end |-> IsoText(2)],
     opening_balance |-> toDisplayAmount(0, 100),
     closing_balance |-> toDisplayAmount(0, 100),
     totals |-> [credits |-> toDisplayAmount(0, 100),
                 debits |-> toDisplayAmount(0, 100),
                 transaction_count |-> Len(rows)],
     transactions |-> rows]

\* main right after generateStatement has returned such a statement.
InitExport ==
    /\ env \in [balanceId : {BalMain}, periodStart : {IsoText(0)},
                periodEnd : {IsoText(2)}, currency : {<<>>}, formatArg : {<<>>}]
    /\ store = <<>>
    /\ pc = "export"
    /\ outputFormat = "csv"
    /\ \E v \in Cells(MaxCellLen), w \in Cells(1), n \in 1..2 :
         /\ formattedTransactions =
                SubSeq(<<RowOf(v, w, DR, v, w), RowOf(w, v, CR, w, v)>>, 1, n)
         /\ statement = <<StatementOf(formattedTransactions)>>
    /\ transactions = <<>>
    /\ accountName = JsString(BalMain)
    /\ snapshots = <<>>
    /\ labels = <<>>
    /\ calls = <<>>
    /\ error = "none"
    /\ stderr = <<>>
    /\ exitCode = 0 - 1
    /\ files = {}
    /\ doc = NoDoc
    /\ dbEnded = FALSE
    /\ ServerOff

NextExport ==
    \/ ExportReturns
    \/ DbEndReturns

SpecExport == InitExport /\ [][NextExport]_vars

(***************************************************************************)
(* The PDF exporter applied to statements of up to MaxPdfRows rows.        *)
(***************************************************************************)
PdfRows(n) ==
    [i \in 1..n |-> RowOf(<<"r">> \o NatText(i), <<"p", "a", "y">>,
                          IF i % 2 = 0 THEN DR ELSE CR, BalOther, USD)]

\* main right after generateStatement has returned, with --format=pdf.
InitPdf ==
    /\ env \in [balanceId : {BalMain}, periodStart : {IsoText(0)},
                periodEnd : {IsoText(2)}, currency : {<<>>},
                formatArg : {<<"p", "d", "f">>}]
    /\ store = <<>>
    /\ pc = "export"
    /\ outputFormat = "pdf"
    /\ \E n \in 1..MaxPdfRows :
         /\ formattedTransactions = PdfRows(n)
         /\ statement = <<StatementOf(formattedTransactions)>>
    /\ transactions = <<>>
    /\ accountName = JsString(BalMain)
    /\ snapshots = <<>>
    /\ labels = <<>>
    /\ calls = <<>>
    /\ error = "none"
    /\ stderr = <<>>
    /\ exitCode = 0 - 1
    /\ files = {}
    /\ doc = NoDoc
    /\ dbEnded = FALSE
    /\ ServerOff

PdfTableStartsAnywhere == PdfTableStartsAt(AllTableTops)

NextPdf ==
    \/ PdfTableStartsAnywhere
    \/ PdfPlaceRow
    \/ PdfExportReturns
    \/ DbEndReturns

SpecPdf == InitPdf /\ [][NextPdf]_vars

(***************************************************************************)
(* The PDF exporter applied to a statement of two rows whose reference,    *)
(* description and counterparty name are texts of up to MaxTextLen         *)
(* characters, shorter and longer than the columns of the PDF.             *)
(***************************************************************************)
\* Lengths around the budgets of 15 and 20 characters.
TextLens == {0, 15, 16, 20, 21, MaxTextLen}

\* A text of n digits: 1, 2, ..., 9, 0, 1, ...
DigitText(n) == [i \in 1..n |-> Digits[(i % 10) + 1]]

\* generateStatement has just returned the statement of two deposits, with
\* --format=pdf.
InitLongTexts ==
    /\ env \in [balanceId : {BalMain}, periodStart : {IsoText(0)},
                periodEnd : {IsoText(2)}, currency : {<<>>},
                formatArg : {<<"p", "d", "f">>}]
    /\ store = <<>>
    /\ pc = "export"
    /\ outputFormat = "pdf"
    /\ \E a, b, c \in TextLens :
         /\ transactions =
                <<Tx(0, DigitText(a), DigitText(b), BalWorld, BalMain, 1000, USD, 100, "APPLIED"),
                  Tx(1, DigitText(c), DigitText(a), BalOther, BalMain, 2000, USD, 100, "APPLIED")>>
         /\ labels = <<DigitText(c), DigitText(b)>>
    /\ formattedTransactions =
           [i \in 1..2 |-> formatRow(transactions[i], BalMain, labels[i])]
    /\ accountName = JsString(BalMain)
    /\ snapshots = <<Snapshot(0, 0, 0), Snapshot(6000, 10000, 4000)>>
    /\ statement = <<assembleStatement(BalMain, USD, accountName, IsoText(0), IsoText(2),
                                       snapshots[1], snapshots[2], transactions,
                                       formattedTransactions)>>
    /\ calls = <<Call("query", BalMain), Call("search", BalMain),
                 Call("snapshot", IsoText(0)), Call("snapshot", IsoText(2)),
                 Call("search", BalWorld), Call("search", BalOther)>>
    /\ error = "none"
    /\ stderr = <<>>
    /\ exitCode = 0 - 1
    /\ files = {}
    /\ doc = NoDoc
    /\ dbEnded = FALSE
    /\ ServerOff

SpecLongTexts == InitLongTexts /\ [][NextPdf]_vars

(***************************************************************************)
(* Two statement requests, each a process running main, that share the     *)
(* output directory.  Both have generated their statement with the same    *)
(* --format; pc[k] is where process k is and statement[k] the Statement    *)
(* it holds.                                                               *)
(***************************************************************************)
\* Balance ids as Blnk makes them: bln_ followed by letters, digits and
\* hyphens.
RequestIds ==
    {BalMain, BalOther, <<"b", "l", "n", "_", "1", "2">>,
     <<"b", "l", "n", "_", "1", "-", "2", "3">>}

\* Period bounds: two ISO-8601 instants, the start before the end.
RequestPeriods ==
    {p \in (0..MaxPeriodEnd) \X (0..MaxPeriodEnd) : p[1] < p[2]}

\* The Statement of a balance over a period: one deposit at the start of
\* the period, whose reference names the balance and whose description
\* names the end of the period.
StatementFor(id, p) ==
    [balance_id |-> id,
     currency |-> USD,
     account_name |-> JsString(id),
     period |-> [start |-> IsoText(p[1]), end |-> IsoText(p[2])],
     opening_balance |-> toDisplayAmount(0, 100),
     closing_balance |-> toDisplayAmount(1000, 100),
     totals |-> [credits |-> toDisplayAmount(1000, 100),
                 debits |-> toDisplayAmount(0, 100),
                 transaction_count |-> 1],
     transactions |->
         <<[timestamp |-> formatTimestamp(p[1]), reference |-> <<"r", "_">> \o id,
            description |-> IsoText(p[2]), direction |-> CR, counterparty |-> Deposit,
            amount |-> formatAmount(1000), currency |-> USD]>>]

InitTwoRequests ==
    /\ env \in [balanceId : {BalMain}, periodStart : {IsoText(0)},
                periodEnd : {IsoText(2)}, currency : {<<>>}, formatArg : {<<>>, <<"p", "d", "f">>}]
    /\ store = <<>>
    /\ pc = <<"export", "export">>
    /\ outputFormat = outputFormatOf(env.formatArg)
    /\ \E id1 \in RequestIds, id2 \in RequestIds, p1 \in RequestPeriods, p2 \in RequestPeriods :
         statement = <<StatementFor(id1, p1), StatementFor(id2, p2)>>
    /\ transactions = <<>>
    /\ accountName = JsUndefined
    /\ snapshots = <<>>
    /\ labels = <<>>
    /\ formattedTransactions = <<>>
    /\ calls = <<>>
    /\ error = "none"
    /\ stderr = <<>>
    /\ exitCode = 0 - 1
    /\ files = {}
    /\ doc = NoDoc
    /\ dbEnded = FALSE
    /\ ServerOff

\* Lines 298-304 in process k: the exporter of the chosen format writes the
\* file of the process's Statement.
RequestExports(k) ==
    /\ pc[k] = "export"
    /\ files' =
          IF outputFormat = "pdf"
          THEN exportCustomerStatementToPDF(files, statement[k],
                   pdfPlaceRow(pdfTableStart(CHOOSE t \in TableTops : \A u \in TableTops : t <= u),
                               statement[k].transactions[1]))
          ELSE exportCustomerStatementToCSV(files, statement[k])
    /\ pc' = [pc EXCEPT ![k] = "exited"]
    /\ UNCHANGED <<env, store, outputFormat, gen, calls, error, stderr, exitCode, doc,
                   dbEnded, web>>

FirstRequestExports == RequestExports(1)
SecondRequestExports == RequestExports(2)

NextTwoRequests ==
    \/ FirstRequestExports
    \/ SecondRequestExports

SpecTwoRequests == InitTwoRequests /\ [][NextTwoRequests]_vars

(***************************************************************************)
(* webhook/index.ts: the webhook receiver.                                 *)
(***************************************************************************)
JsNull == [t |-> "null", s |-> <<>>, n |-> 0]

\* U+00E9, a character outside ASCII: one UTF-16 unit in a string, two
\* bytes in UTF-8.
EAcute == "U+00E9"

\* Buffer.from(s): the UTF-8 bytes of a string.
RECURSIVE BufferFrom(_)
BufferFrom(s) ==
    IF s = <<>> THEN <<>>
    ELSE (IF s[1] = EAcute THEN <<"c3", "a9">> ELSE <<s[1]>>) \o BufferFrom(Tail(s))

\* crypto.timingSafeEqual: "true" or "false", or the RangeError it throws
\* when the byte lengths differ.
timingSafeEqual(a, b) ==
    IF Len(a) # Len(b) THEN "RangeError" ELSE IF a = b THEN "true" ELSE "false"

\* Lines 34-38: the guard compares the lengths of the strings, the
\* comparison is made on their UTF-8 bytes.
constantTimeEqualsHex(a, b) ==
    IF Len(a) # Len(b) THEN "false"
    ELSE timingSafeEqual(BufferFrom(a), BufferFrom(b))

HexDigits == Digits \o <<"a", "b", "c", "d", "e", "f">>

Alphabet == Digits \o Lower \o <<".", "{", "}", "\"", ":", " ">>

CharCode(c) == CHOOSE i \in 1..Len(Alphabet) : Alphabet[i] = c

RECURSIVE Mix(_, _)
\* A 16-bit running digest of a text.
Mix(h, s) ==
    IF s = <<>> THEN h
    ELSE Mix((h * 31 + CharCode(s[1])) % 65536, Tail(s))

\* createHmac("sha256", key).update(msg).digest("hex"): a keyed digest in
\* lower-case hex digits, of one length for every key and message.  Four
\* digits of a 16-bit keyed digest stand for the 64 of HMAC-SHA256.
HmacSha256Hex(key, msg) ==
    LET d == Mix(Mix(Mix(0, key), msg), key)
    IN  <<HexDigits[((d \div 4096) % 16) + 1], HexDigits[((d \div 256) % 16) + 1],
          HexDigits[((d \div 16) % 16) + 1], HexDigits[(d % 16) + 1]>>

\* Line 110: the longest text logged in full.
LogMaxChars == 4000

\* Lines 22-25.
truncateForLog(input, maxChars) ==
    IF Len(input) <= maxChars THEN input
    ELSE SubSeq(input, 1, maxChars) \o <<"... (truncated, len=">>
         \o NatText(Len(input)) \o <<")">>

\* A request body: its text and what JSON.parse makes of that text: a
\* SyntaxError (ok = FALSE), or a value of a type, for an object whether it
\* has an `event` member and that member, and the text JSON.stringify
\* gives back (for a string value, the string itself).
Body(raw, ok, type, hasEvent, event, text) ==
    [raw |-> raw, ok |-> ok, type |-> type, hasEvent |-> hasEvent, event |-> event,
     text |-> text]

\* {"event":"a"}, { "event": 1 } and hi.
Bodies ==
    { Body(<<"{", "\"", "e", "v", "e", "n", "t", "\"", ":", "\"", "a", "\"", "}">>,
           TRUE, "object", TRUE, JsString(<<"a">>),
           <<"{", "\"", "e", "v", "e", "n", "t", "\"", ":", "\"", "a", "\"", "}">>),
      Body(<<"{", " ", "\"", "e", "v", "e", "n", "t", "\"", ":", " ", "1", " ", "}">>,
           TRUE, "object", TRUE, JsNumber(1),
           <<"{", "\"", "e", "v", "e", "n", "t", "\"", ":", "1", "}">>),
      Body(<<"h", "i">>, FALSE, "", FALSE, JsUndefined, <<>>) }

Health == <<"/", "h", "e", "a", "l", "t", "h">>
Unknown == <<"u", "n", "k", "n", "o", "w", "n">>
VerifiedLine == "[webhook] verified event="

\* Lines 12-13.
webhookPath(e) ==
    LET webhookPathRaw == IF e.webhookPath = <<>>
                          THEN <<"/", "w", "e", "b", "h", "o", "o", "k">>
                          ELSE e.webhookPath
    IN  IF webhookPathRaw[1] = "/" THEN webhookPathRaw ELSE <<"/">> \o webhookPathRaw

Request(method, pathname, signature, timestamp, body) ==
    [method |-> method, pathname |-> pathname, signature |-> signature,
     timestamp |-> timestamp, body |-> body]

\* Lines 43-48: the status and the JSON body of a response.
jsonResponse(status, message, event) == [status |-> status, error |-> message, event |-> event]

\* What the handler gives: its response and the lines it logged.
Out(response, log) == [response |-> response, log |-> log]

\* Bun.serve answers a request whose handler has thrown with status 500.
InternalServerError == 500

\* Line 87: the text the signature is computed over.
signedText(timestamp, rawBody) == timestamp \o <<".">> \o rawBody

\* Lines 96-106: the event name of a verified payload.
eventNameOf(body) ==
    IF body.ok /\ body.type = "object" /\ body.hasEvent /\ body.event.t = "string"
    THEN body.event.s
    ELSE Unknown

\* Lines 96-111: the text logged for a verified payload.
logBodyOf(body) ==
    IF ~body.ok THEN truncateForLog(body.raw, LogMaxChars)
    ELSE truncateForLog(body.text, LogMaxChars)

\* Lines 52-123: the fetch handler.
fetch(req, secret, path) ==
    IF req.method = "GET" /\ req.pathname = Health
    THEN Out(jsonResponse(200, "", <<>>), <<>>)
    ELSE IF req.method # "POST" \/ req.pathname # path
    THEN Out(jsonResponse(404, "Not found", <<>>), <<>>)
    ELSE IF ~Truthy(req.signature) \/ ~Truthy(req.timestamp)
    THEN Out(jsonResponse(400, "Missing required headers", <<>>), <<>>)
    ELSE LET rawBody == req.body.raw
             expectedSignature ==
                 HmacSha256Hex(secret, signedText(req.timestamp.s, rawBody))
             ok == constantTimeEqualsHex(req.signature.s, expectedSignature)
         IN  IF ok = "RangeError"
             THEN Out(jsonResponse(InternalServerError, "RangeError", <<>>), <<>>)
             ELSE IF ok = "false"
             THEN Out(jsonResponse(401, "Invalid signature", <<>>), <<>>)
             ELSE Out(jsonResponse(200, "", eventNameOf(req.body)),
                      << <<VerifiedLine, eventNameOf(req.body)>>,
                         <<"", logBodyOf(req.body)>> >>)

Secret   == <<"k", "1">>
OtherKey == <<"k", "2">>

\* Seconds the clock advances in one step.
TickSeconds == 200

\* The values of x-blnk-timestamp: none, and the time of a step of the clock.
Timestamps == {JsNull} \cup {JsString(NatText(k * TickSeconds)) : k \in 0..1}

\* The signature Blnk sends with a body at a time.
SignatureOf(key, timestamp, body) ==
    HmacSha256Hex(key, signedText(timestamp.s, body.raw))

\* The values of x-blnk-signature sent along a timestamp: none, an empty
\* one, the signature of each body under the shared secret, the signature
\* of a sender with another key, a signature cut short, and a text of the
\* length of a signature with a character outside ASCII.
Signatures(secret, timestamp) ==
    {JsNull, JsString(<<>>)}
    \cup {JsString(SignatureOf(secret, timestamp, b)) : b \in Bodies}
    \cup {JsString(SignatureOf(OtherKey, timestamp, b)) : b \in {CHOOSE c \in Bodies : ~c.ok}}
    \cup {JsString(SubSeq(SignatureOf(secret, timestamp, b), 1, 3)) : b \in {CHOOSE c \in Bodies : ~c.ok}}
    \cup {JsString(SubSeq(SignatureOf(secret, timestamp, b), 1, 3) \o <<EAcute>>) : b \in {CHOOSE c \in Bodies : ~c.ok}}

\* The requests sent to the receiver: every POST on the webhook path, and
\* a GET of the health check, a GET of the webhook path and a POST
\* elsewhere.
Requests(secret, path) ==
    UNION {{Request("POST", path, sig, ts, b) : sig \in Signatures(secret, ts), b \in Bodies} :
              ts \in Timestamps}
    \cup {Request(m, p, JsNull, JsNull, CHOOSE c \in Bodies : ~c.ok) :
            m \in {"GET", "POST"}, p \in {Health, path}}

\* The webhook receiver is about to be started.
InitWebhook ==
    /\ env \in [secret : {<<>>, Secret}, webhookPath : {<<>>, <<"h", "k">>}]
    /\ store = <<>>
    /\ pc = "start"
    /\ outputFormat = ""
    /\ transactions = <<>>
    /\ accountName = JsUndefined
    /\ snapshots = <<>>
    /\ labels = <<>>
    /\ formattedTransactions = <<>>
    /\ statement = <<>>
    /\ calls = <<>>
    /\ error = "none"
    /\ stderr = <<>>
    /\ exitCode = 0 - 1
    /\ files = {}
    /\ doc = NoDoc
    /\ dbEnded = FALSE
    /\ ServerOff

\* Lines 3-13 and 126-127: without BLNK_SECRET the module throws and the
\* process ends; otherwise the server listens.
ServerStarts ==
    /\ pc = "start"
    /\ IF env.secret = <<>>
       THEN /\ error' = "secret_missing"
            /\ stderr' = Append(stderr, "BLNK_SECRET environment variable is required")
            /\ exitCode' = 1
            /\ pc' = "exited"
            /\ UNCHANGED stdout
       ELSE /\ pc' = "listening"
            /\ stdout' = stdout \o << <<"Listening on ", webhookPath(env)>>,
                                      <<"Health check at GET /health", <<>>>> >>
            /\ UNCHANGED <<error, stderr, exitCode>>
    /\ UNCHANGED <<env, store, outputFormat, gen, calls, files, doc, dbEnded, clock, exchanges>>

\* Time passes.
Tick ==
    /\ pc = "listening"
    /\ clock < MaxTicks * TickSeconds
    /\ clock' = clock + TickSeconds
    /\ UNCHANGED <<env, store, pc, outputFormat, gen, calls, error, stderr, exitCode,
                   files, doc, dbEnded, exchanges, stdout>>

\* Lines 52-123: a request arrives and is answered.
Fetch ==
    /\ pc = "listening"
    /\ Len(exchanges) < MaxRequests
    /\ \E req \in Requests(env.secret, webhookPath(env)) :
         LET out == fetch(req, env.secret, webhookPath(env))
         IN  /\ exchanges' = Append(exchanges,
                    [request |-> req, at |-> clock, response |-> out.response])
             /\ stdout' = stdout \o out.log
    /\ UNCHANGED <<env, store, pc, outputFormat, gen, calls, error, stderr, exitCode,
                   files, doc, dbEnded, clock>>

NextWebhook ==
    \/ ServerStarts
    \/ Tick
    \/ Fetch

SpecWebhook == InitWebhook /\ [][NextWebhook]_vars

(***************************************************************************)
(* Properties.                                                             *)
(***************************************************************************)
Produced == statement # <<>>
St == statement[1]
World == <<"w", "o", "r", "l", "d">>

\* C1: in every statement generateStatement returns, totals.credits is the
\* display form of snapshot(periodEnd).credit_balance minus
\* snapshot(periodStart).credit_balance and totals.debits the display form
\* of the same difference of debit_balance, whatever transactions were
\* fetched; the totals are not sums of the fetched amounts.
C1_TotalsAreSnapshotDifferences ==
    Produced =>
        LET precision == getCurrencyPrecision(transactions, CURRENCY)
        IN  /\ St.totals.credits =
                  toLocaleString2(snapshots[2].credit_balance
                                  - snapshots[1].credit_balance, precision)
            /\ St.totals.debits =
                  toLocaleString2(snapshots[2].debit_balance
                                  - snapshots[1].debit_balance, precision)

\* A statement whose snapshot differences are not the sums of the fetched
\* credits and debits.
C1_Witness ==
    /\ Produced
    /\ snapshots[2].credit_balance - snapshots[1].credit_balance
          # SumAmounts(transactions, "destination")
    /\ snapshots[2].debit_balance - snapshots[1].debit_balance
          # SumAmounts(transactions, "source")
    /\ snapshots[2].credit_balance # snapshots[1].credit_balance

\* C2: when the query of a valid balance id and period returns no rows,
\* generateStatement fails with the no-transactions error, no statement (in
\* particular none with zero rows) is returned, and the query is the only
\* call made: no snapshot fetch and no name lookup.
C2_EmptyPeriodFails ==
    /\ Produced => Len(St.transactions) > 0
    /\ error = "no_transactions" =>
          /\ ~Produced
          /\ exitCode = 1
          /\ calls = <<Call("query", BALANCE_ID)>>
    /\ ( /\ pc \notin {"main", "query"}
         /\ error \notin {"config", "invalid_format", "query"}
         /\ queryTransactions(store, BALANCE_ID, CURRENCY, PERIOD_START, PERIOD_END) = <<>> )
       => error = "no_transactions"

\* The run has failed on an empty period of a table that holds rows.
C2_Witness ==
    /\ error = "no_transactions"
    /\ pc = "exited"
    /\ store # <<>>

\* C3: in every statement returned, totals.transaction_count is the length
\* of the row list handed to the exporter, whatever the fetched list and
\* the outcomes of the name lookups; a PDF written from it has as many rows.
C3_CountIsRowCount ==
    Produced =>
        /\ St.totals.transaction_count = Len(St.transactions)
        /\ \A f \in files : f.format = "pdf" => Len(f.pdf) = St.totals.transaction_count

\* A statement over a table that holds more rows than the statement.
C3_Witness ==
    /\ Produced
    /\ Len(St.transactions) < Len(store)
    /\ files # {}

\* C4: a row's direction is DR when the transaction's source is the
\* balance id, otherwise CR when its destination is; a transaction with
\* neither endpoint equal to the balance id makes generation fail
\* (AmbiguousBalanceRole), so no statement contains one.
C4_DirectionOrFailure ==
    /\ \A i \in 1..Len(formattedTransactions) :
          LET tx == transactions[i]
          IN  /\ tx.source = BALANCE_ID => formattedTransactions[i].direction = DR
              /\ tx.source # BALANCE_ID =>
                    /\ tx.destination = BALANCE_ID
                    /\ formattedTransactions[i].direction = CR
    /\ error = "ambiguous" =>
          LET tx == transactions[Len(formattedTransactions) + 1]
          IN  tx.source # BALANCE_ID /\ tx.destination # BALANCE_ID
    /\ pc = "counterparty" =>
          LET tx == transactions[Len(formattedTransactions) + 1]
          IN  tx.source = BALANCE_ID \/ tx.destination = BALANCE_ID
    /\ Produced =>
          /\ Len(St.transactions) = Len(transactions)
          /\ \A i \in 1..Len(transactions) :
                transactions[i].source = BALANCE_ID \/ transactions[i].destination = BALANCE_ID

\* Generation has failed on a transaction of another balance after a row of
\* a self-transfer was made.
C4_Witness ==
    /\ error = "ambiguous"
    /\ Len(formattedTransactions) = 1
    /\ transactions[1].source = BALANCE_ID
    /\ transactions[1].destination = BALANCE_ID

\* C5 as stated: every row's transaction has exactly one of source and
\* destination equal to the balance id; a transaction with neither or with
\* both makes generation fail instead of producing a row.
C5_ExactlyOneEndpoint ==
    \A i \in 1..Len(formattedTransactions) :
        (transactions[i].source = BALANCE_ID) # (transactions[i].destination = BALANCE_ID)

\* C5 amended: every row's transaction has at least one of source and
\* destination equal to the balance id; a transaction with neither makes
\* generation fail (AmbiguousBalanceRole) instead of producing a row, while
\* a transaction with both produces a DR row and never that failure.
C5_AtLeastOneEndpoint ==
    /\ \A i \in 1..Len(formattedTransactions) :
          LET tx == transactions[i]
          IN  /\ tx.source = BALANCE_ID \/ tx.destination = BALANCE_ID
              /\ (tx.source = BALANCE_ID /\ tx.destination = BALANCE_ID)
                    => formattedTransactions[i].direction = DR
    /\ error = "ambiguous" =>
          LET tx == transactions[Len(formattedTransactions) + 1]
          IN  tx.source # BALANCE_ID /\ tx.destination # BALANCE_ID
    /\ (pc = "exited" /\ error = "none") =>
          /\ Produced
          /\ Len(St.transactions) = Len(transactions)

\* A statement with the row of a self-transfer, and a failure on a
\* transaction of another balance.
C5_Witness ==
    /\ Produced
    /\ \E i \in 1..Len(St.transactions) :
          /\ transactions[i].source = BALANCE_ID
          /\ transactions[i].destination = BALANCE_ID
          /\ St.transactions[i].direction = DR

\* C6: name resolution is best-effort: no outcome of an identity search
\* (no hits, transport error, malformed response, a hit whose fields have
\* unexpected types) makes statement generation fail; the run never ends in
\* an error raised while a resolved name is handled.
C6_NameResolutionNeverFails ==
    error # "type_error"

\* C7: with the balance id, the period start or the period end missing,
\* main fails with the configuration error and exit code 1 after writing
\* the diagnostic, and the run makes no call to the transaction store, the
\* snapshot endpoint or the search endpoint.
C7_ConfigurationErrorBeforeAnyCall ==
    (BALANCE_ID = <<>> \/ PERIOD_START = <<>> \/ PERIOD_END = <<>>) =>
        /\ calls = <<>>
        /\ pc \in {"main", "exited"}
        /\ pc = "exited" =>
              /\ error = "config"
              /\ exitCode = 1
              /\ stderr # <<>>
              /\ ~Produced
              /\ files = {}

\* The run has ended on the configuration error with only the period end
\* missing.
C7_Witness ==
    /\ pc = "exited"
    /\ error = "config"
    /\ BALANCE_ID # <<>>
    /\ PERIOD_START # <<>>
    /\ PERIOD_END = <<>>

C9_Scenario ==
    /\ Produced
    /\ BALANCE_ID = BalMain
    /\ CURRENCY = USD
    /\ Len(transactions) = 2
    /\ transactions[1].source = BalWorld /\ transactions[1].destination = BalMain
    /\ transactions[1].amount = 10000 /\ transactions[1].precision = 100
    /\ transactions[2].source = BalMain /\ transactions[2].destination = BalWorld
    /\ transactions[2].amount = 4000 /\ transactions[2].precision = 100
    /\ snapshots = <<Snapshot(0, 0, 0), Snapshot(6000, 10000, 4000)>>
    /\ includes(toLowerCase(labels[1]), World)

Kth(S, k) == CHOOSE p \in S : Cardinality({q \in S : q < p}) = k - 1

\* Position i of text lies outside quotes: an even number of double quotes
\* precedes it (the two quotes of a doubled quote cancel).
OutsideQuotes(text, i) == Cardinality({j \in 1..(i - 1) : text[j] = "\""}) % 2 = 0

Malformed == <<"malformed">>

\* The value of a raw cell: a quoted cell loses its two enclosing quotes and
\* every doubled quote becomes one; an unquoted cell is taken as it is; a
\* quote anywhere else is an error.
csvUnquote(raw) ==
    IF raw = <<>> THEN <<>>
    ELSE IF raw[1] = "\""
    THEN IF Len(raw) >= 2 /\ raw[Len(raw)] = "\""
         THEN LET inner == SubSeq(raw, 2, Len(raw) - 1)
                  kept == {j \in 1..Len(inner) :
                              inner[j] # "\"" \/ ~OutsideQuotes(inner, j)}
              IN  IF OutsideQuotes(inner, Len(inner) + 1)
                  THEN [k \in 1..Cardinality(kept) |-> inner[Kth(kept, k)]]
                  ELSE Malformed
         ELSE Malformed
    ELSE IF \E j \in 1..Len(raw) : raw[j] = "\"" THEN Malformed
    ELSE raw

\* Standard CSV decoding (RFC 4180): outside quotes a comma ends a cell and
\* LF, CR LF or CR ends a record; the result is the sequence of records,
\* each the sequence of its cells' values.
csvDecode(text) ==
    LET n == Len(text)
        \* a CR LF pair outside quotes is one terminator, counted at its CR
        seps == {i \in 1..n :
                    /\ text[i] \in {",", "\n", "\r"}
                    /\ OutsideQuotes(text, i)
                    /\ ~(text[i] = "\n" /\ i > 1 /\ text[i - 1] = "\r")}
        open == n > 0 /\ (text[n] \notin {"\n", "\r"} \/ ~OutsideQuotes(text, n))
        ends == IF open THEN seps \cup {n + 1} ELSE seps
        K == Cardinality(ends)
        endOf == [k \in 1..K |-> Kth(ends, k)]
        after(p) == IF p < n /\ text[p] = "\r" /\ text[p + 1] = "\n" THEN p + 2 ELSE p + 1
        raw(k) == SubSeq(text, IF k = 1 THEN 1 ELSE after(endOf[k - 1]), endOf[k] - 1)
        terms == {k \in 1..K : endOf[k] > n \/ text[endOf[k]] # ","}
        R == Cardinality(terms)
        lastOf == [r \in 1..R |-> Kth(terms, r)]
        firstOf(r) == IF r = 1 THEN 1 ELSE lastOf[r - 1] + 1
    IN  [r \in 1..R |->
            [c \in 1..(lastOf[r] - firstOf(r) + 1) |-> csvUnquote(raw(firstOf(r) + c - 1))]]

\* C10: decoding the text exportCustomerStatementToCSV writes gives the
\* header record followed by one record per statement row, in row order,
\* each with the row's seven values exactly and in column order, for cell
\* values with commas, double quotes, carriage returns, newlines, spaces
\* and for empty values.
C10_CsvRoundTrip ==
    \A f \in files :
        f.format = "csv" =>
            csvDecode(f.csv) =
                <<CsvHeaders>> \o [i \in 1..Len(St.transactions) |->
                                      csvCells(St.transactions[i])]

\* A CSV file of two rows, one with a reference of a carriage return and a
\* double quote, next to a description that is a comma.
C10_Witness ==
    /\ \E f \in files : f.format = "csv"
    /\ Len(St.transactions) = 2
    /\ St.transactions[1].reference = <<"\r", "\"">>
    /\ St.transactions[1].description = <<",">>

\* A cell as a CSV file shows it when exactly the cells holding a character
\* of `special` are wrapped in double quotes, with their double quotes
\* doubled, and every other cell is written as it is.
QuotedWhen(s, special) ==
    IF \E i \in 1..Len(s) : s[i] \in special
    THEN <<"\"">> \o doubleQuotes(s) \o <<"\"">>
    ELSE s

\* The text of the CSV file of a statement under that rule.
CsvTextWhen(st, special) ==
    LET line(tx) == Join([c \in 1..7 |-> QuotedWhen(csvCells(tx)[c], special)], <<",">>)
    IN  Join(<<Join(CsvHeaders, <<",">>)>>
             \o [i \in 1..Len(st.transactions) |-> line(st.transactions[i])],
             <<"\n">>) \o <<"\n">>

\* C11 as stated: a field of the CSV file is wrapped in double quotes, with
\* its double quotes doubled, exactly when it contains a comma, a double
\* quote or a newline; every field with none of these three characters is
\* written verbatim.
C11_QuotedOnThreeCharacters ==
    \A f \in files :
        f.format = "csv" => f.csv = CsvTextWhen(St, {",", "\"", "\n"})

\* C11 amended: a field of the CSV file is wrapped in double quotes, with
\* its double quotes doubled, exactly when it contains a comma, a double
\* quote, a line feed or a carriage return; every other field is written
\* verbatim with no added quotes.
C11_QuotedOnFourCharacters ==
    \A f \in files :
        f.format = "csv" => f.csv = CsvTextWhen(St, {",", "\"", "\n", "\r"})

\* A CSV file with a row whose reference is a lone carriage return and
\* whose description is a plain letter.
C11_Witness ==
    /\ \E f \in files : f.format = "csv"
    /\ St.transactions[1].reference = <<"\r">>
    /\ St.transactions[1].description = <<"a">>

\* The rows of a PDF file that lie on page p.
RowsOnPage(f, p) == {i \in 1..Len(f.pdf) : f.pdf[i].page = p}

MonotoneLedger ==
    LET from == IsoTime(PERIOD_START)
        to   == IsoTime(PERIOD_END)
    IN  /\ from <= to =>
              /\ snapshots[1].credit_balance <= snapshots[2].credit_balance
              /\ snapshots[1].debit_balance <= snapshots[2].debit_balance
        /\ to <= from =>
              /\ snapshots[2].credit_balance <= snapshots[1].credit_balance
              /\ snapshots[2].debit_balance <= snapshots[1].debit_balance

\* C13: in every statement generateStatement returns over a ledger whose
\* cumulative credit and debit counters never decrease, totals.credits and
\* totals.debits are not negative (the difference is >= 0 and the text has
\* no minus sign), for every pair of period bounds; with a periodStart
\* that is not before periodEnd no statement is returned at all.
C13_TotalsNotNegative ==
    Produced =>
        /\ IsoTime(PERIOD_START) < IsoTime(PERIOD_END)
        /\ MonotoneLedger =>
              /\ totalCredits(snapshots[1], snapshots[2]) >= 0
              /\ totalDebits(snapshots[1], snapshots[2]) >= 0
              /\ St.totals.credits[1] # "-"
              /\ St.totals.debits[1] # "-"

\* A statement over a monotone ledger whose counters have grown within
\* the period.
C13_Witness ==
    /\ Produced
    /\ MonotoneLedger
    /\ snapshots[1].credit_balance < snapshots[2].credit_balance
    /\ snapshots[1].debit_balance < snapshots[2].debit_balance
    /\ St.totals.debits = <<"2", "0", ".", "0", "5">>

\* The label resolved for row i matches the world placeholder pattern.
WorldLabel(i) == includes(toLowerCase(labels[i]), World)

\* Every field of row i but the counterparty is what the transaction gives
\* with or without the normalization, and a label that does not match the
\* pattern is kept.
RowFrame(i) ==
    LET tx  == transactions[i]
        row == formattedTransactions[i]
    IN  /\ row.direction = (IF tx.source = BALANCE_ID THEN DR ELSE CR)
        /\ row.amount = toLocaleString2(tx.amount, 1)
        /\ row.currency = tx.currency
        /\ row.reference = tx.reference
        /\ row.description = tx.description
        /\ row.timestamp = formatTimestamp(tx.effective_date)
        /\ ~WorldLabel(i) => row.counterparty = labels[i]

\* The id of the counterparty of row i: the endpoint that is not the
\* statement's balance (of a self-transfer, the balance itself).
CounterpartyOf(i) ==
    IF transactions[i].source = BALANCE_ID THEN transactions[i].destination
    ELSE transactions[i].source

\* generateStatement is in its row loop or has just returned: the rows are
\* those it has pushed, and they do not change afterwards.
RowsJustMade == pc \in {"counterparty", "export"}

OtherTransactions ==
    {<<TxCatalogue[k]>> : k \in 1..Len(TxCatalogue)}
    \cup {<<TxCatalogue[k], TxCatalogue[k + 1]>> : k \in 1..(Len(TxCatalogue) - 1)}

\* The four monetary fields of a statement.
MoneyFields(st) ==
    <<st.opening_balance, st.closing_balance, st.totals.credits, st.totals.debits>>

\* The statement a second run returns from the same two snapshots and the
\* transaction list txs.
SecondRun(txs) ==
    assembleStatement(BALANCE_ID, CURRENCY, accountName, PERIOD_START, PERIOD_END,
                      snapshots[1], snapshots[2], txs, <<>>)

\* C15: when generateStatement returns, the statement's opening_balance
\* and closing_balance are the balance fields of the two snapshots, read
\* directly and scaled by the resolved precision, and a second run with the same snapshots and the same
\* resolved precision but any other transaction list (other rows, amounts,
\* endpoints, timestamps, another number of rows) returns the same
\* opening_balance, closing_balance, totals.credits and totals.debits.
C15_SnapshotIndependence ==
    pc = "export" =>
        LET precision == getCurrencyPrecision(transactions, CURRENCY)
        IN  /\ St.opening_balance = toLocaleString2(snapshots[1].balance, precision)
            /\ St.closing_balance = toLocaleString2(snapshots[2].balance, precision)
            /\ \A txs \in OtherTransactions :
                  getCurrencyPrecision(txs, CURRENCY) = precision
                      => MoneyFields(SecondRun(txs)) = MoneyFields(St)

\* A statement of one transaction, next to a second run of the same
\* precision with two other transactions, whose amounts do not account for
\* the difference of the two balances.
C15_Witness ==
    /\ pc = "export"
    /\ Len(transactions) = 1
    /\ snapshots[2].balance - snapshots[1].balance
          # SumAmounts(transactions, "destination") - SumAmounts(transactions, "source")
    /\ \E txs \in OtherTransactions :
          /\ Len(txs) = 2
          /\ getCurrencyPrecision(txs, CURRENCY) = getCurrencyPrecision(transactions, CURRENCY)
          /\ \A k \in 1..2 : txs[k].amount # transactions[1].amount

\* The query has answered without an error of the database.
QueryAnswered ==
    /\ pc \notin {"main", "query"}
    /\ error \notin {"config", "invalid_format", "query"}

\* The stored rows the query is to return: status applied, the requested
\* currency, the balance as source or destination, and an effective
\* timestamp t with periodStart <= t < periodEnd.
Wanted ==
    {i \in 1..Len(store) :
        /\ store[i].status = "APPLIED"
        /\ store[i].currency = CURRENCY
        /\ (store[i].source = BALANCE_ID \/ store[i].destination = BALANCE_ID)
        /\ IsoTime(PERIOD_START) <= store[i].effective_date
        /\ store[i].effective_date < IsoTime(PERIOD_END)}

\* C16: the transactions generateStatement works on are exactly the stored
\* rows with status applied, the requested currency, the balance id as
\* source or destination and periodStart <= t < periodEnd (a row at
\* periodStart is among them, a row at periodEnd is not), each once, and
\* every statement row is the row of one of them.
C16_QueryFilter ==
    QueryAnswered =>
        /\ Len(transactions) = Cardinality(Wanted)
        /\ \A i \in Wanted : \E k \in 1..Len(transactions) : transactions[k] = store[i]
        /\ \A k \in 1..Len(transactions) : \E i \in Wanted : transactions[k] = store[i]
        /\ \A k \in 1..Len(formattedTransactions) :
              /\ formattedTransactions[k].reference = transactions[k].reference
              /\ \E i \in Wanted : formattedTransactions[k].reference = store[i].reference

\* A statement over a table with an applied row of the balance exactly at
\* periodStart, which is the statement's only row, and one exactly at
\* periodEnd.
C16_Witness ==
    /\ Produced
    /\ Len(St.transactions) = 1
    /\ transactions[1].effective_date = IsoTime(PERIOD_START)
    /\ \E i \in 1..Len(store) :
          /\ store[i].effective_date = IsoTime(PERIOD_END)
          /\ store[i].status = "APPLIED"
          /\ store[i].currency = CURRENCY
          /\ store[i].destination = BALANCE_ID

Diagnostic == <<"Error generating statement">>

\* C17: the run ends with exit code 0 exactly when a statement was
\* generated and its export file was written; a run that fails (on the
\* configuration, the query, an empty period, a snapshot fetch, an
\* ambiguous balance role, a resolved name or the export) ends with exit
\* code 1 after the diagnostic was written to stderr, followed by the API
\* error payload only for an error that can carry one.
C17_ExitCodes ==
    /\ exitCode \in {0 - 1, 0, 1}
    /\ exitCode = 0 - 1 <=> pc # "exited"
    /\ exitCode = 0 <=>
          /\ pc = "exited"
          /\ Produced
          /\ \E f \in files : f.name = fileName(St, <<"c", "s", "v">>)
                                \/ f.name = fileName(St, <<"p", "d", "f">>)
    /\ exitCode = 0 => error = "none" /\ stderr = <<>>
    /\ exitCode = 1 =>
          /\ error \in {"config", "query", "no_transactions", "snapshot", "ambiguous",
                         "type_error", "export_io"}
          /\ stderr \in {Diagnostic, Diagnostic \o <<"API Error">>}
          /\ error # "snapshot" => stderr = Diagnostic
    /\ error # "none" => exitCode = 1

\* A run that has failed on a snapshot fetch whose error carried the
\* upstream payload.
C17_Witness ==
    /\ pc = "exited"
    /\ exitCode = 1
    /\ error = "snapshot"
    /\ stderr = Diagnostic \o <<"API Error">>

\* C18: the Postgres pool is closed on every path by which main finishes:
\* when the process has ended, after a successful export as well as after
\* a failure reported with a non-zero exit code, db.end() has been called.
C18_PoolClosedOnEveryPath ==
    pc = "exited" => dbEnded

\* The extension of a file of the given format.
Extension(format) == IF format = "pdf" THEN <<"p", "d", "f">> ELSE <<"c", "s", "v">>

\* statement_<balanceId>_<periodStart>_<periodEnd>.<ext>, colons included.
RawName(st, ext) ==
    <<"s", "t", "a", "t", "e", "m", "e", "n", "t", "_">> \o st.balance_id \o <<"_">>
    \o st.period.start \o <<"_">> \o st.period.end \o <<".">> \o ext

\* C19: the name of the file written is statement_<balanceId>_<periodStart>_
\* <periodEnd>.<csv|pdf> of the statement with every ':' replaced by '-'
\* and nothing else changed, it holds no ':', its extension is that of the
\* chosen format, and without the extension it is the name the other
\* exporter gives the same statement.
C19_FileName ==
    \A f \in files :
        LET raw == RawName(St, Extension(f.format))
            other == fileName(St, Extension(IF f.format = "pdf" THEN "csv" ELSE "pdf"))
        IN  /\ f.format = outputFormat
            /\ Len(f.name) = Len(raw)
            /\ \A i \in 1..Len(raw) : f.name[i] = (IF raw[i] = ":" THEN "-" ELSE raw[i])
            /\ \A i \in 1..Len(f.name) : f.name[i] # ":"
            /\ SubSeq(f.name, 1, Len(f.name) - 3) = SubSeq(other, 1, Len(other) - 3)
            /\ SubSeq(f.name, Len(f.name) - 2, Len(f.name)) = Extension(f.format)

\* The PDF of the statement of bln_123 from 00:00:00 to 00:00:02 has been
\* written under its name, the four colons of the period replaced.
C19_Witness ==
    \E f \in files :
        /\ f.format = "pdf"
        /\ f.name =
              <<"s", "t", "a", "t", "e", "m", "e", "n", "t", "_", "b", "l",
                "n", "_", "1", "2", "3", "_", "2", "0", "2", "6", "-", "0",
                "1", "-", "0", "1", "T", "0", "0", "-", "0", "0", "-", "0",
                "0", "Z", "_", "2", "0", "2", "6", "-", "0", "1", "-", "0",
                "1", "T", "0", "0", "-", "0", "0", "-", "0", "2", "Z", ".",
                "p", "d", "f">>

\* The search calls made for the rows: calls 1 to 4 are the query, the
\* lookup of the account name and the two snapshot fetches.
RowLookup(i) == calls[4 + i]

\* C20: the counterparty looked up for a row is the endpoint opposite to
\* the one the direction check matched: tx.destination for a DR row and
\* tx.source for a CR row (for a self-transfer, a DR row, the balance
\* itself); and for every transaction and balance id getCounterpartyId
\* throws exactly when getDirection throws, which is when neither endpoint
\* is the balance id.
C20_CounterpartyIsOppositeEndpoint ==
    /\ \A i \in 1..Len(formattedTransactions) :
          /\ RowLookup(i).op = "search"
          /\ formattedTransactions[i].direction = DR
                => RowLookup(i).arg = transactions[i].destination
          /\ formattedTransactions[i].direction = CR
                => RowLookup(i).arg = transactions[i].source
    /\ pc = "counterparty" =>
          LET i == Len(formattedTransactions) + 1
          IN  RowLookup(i).arg = (IF transactions[i].source = BALANCE_ID
                                  THEN transactions[i].destination
                                  ELSE transactions[i].source)
    /\ \A k \in 1..Len(TxCatalogue), id \in {BalMain, BalWorld, BalOther} :
          /\ (getCounterpartyId(TxCatalogue[k], id) = Throws)
                <=> (getDirection(TxCatalogue[k], id) = Throws)
          /\ (getCounterpartyId(TxCatalogue[k], id) = Throws)
                <=> (TxCatalogue[k].source # id /\ TxCatalogue[k].destination # id)

\* A statement with a DR row and a CR row whose counterparties, the DR
\* row's destination and the CR row's source, are two other balances.
C20_Witness ==
    /\ Produced
    /\ Len(St.transactions) = 2
    /\ St.transactions[1].direction = DR
    /\ St.transactions[2].direction = CR
    /\ RowLookup(1).arg = BalWorld
    /\ RowLookup(2).arg = BalOther

\* The exchange was a POST on the webhook path.
OnWebhookPath(x) ==
    x.request.method = "POST" /\ x.request.pathname = webhookPath(env)

\* The hex HMAC-SHA256 of `${timestamp}.${rawBody}` of an exchange's
\* request under the shared secret.
ExpectedSignature(x) ==
    HmacSha256Hex(env.secret, x.request.timestamp.s \o <<".">> \o x.request.body.raw)

\* A header is missing: it is absent, or its value is empty.
Missing(header) == header.t = "null" \/ header.s = <<>>

\* C21: a POST on the webhook path is answered with 200, and logged as
\* verified, only if x-blnk-signature equals the hex HMAC-SHA256 of
\* `${timestamp}.${rawBody}` under the shared secret over the body as
\* received; a request missing the signature or the timestamp header gets
\* 400; a request whose signature does not match gets 401 and is never
\* logged as verified.
C21_SignatureGate ==
    /\ \A k \in 1..Len(exchanges) :
          LET x == exchanges[k]
          IN  OnWebhookPath(x) =>
                /\ x.response.status = 200 =>
                      x.request.signature = JsString(ExpectedSignature(x))
                /\ (Missing(x.request.signature) \/ Missing(x.request.timestamp))
                      => x.response.status = 400
                /\ ( /\ ~Missing(x.request.signature)
                     /\ ~Missing(x.request.timestamp)
                     /\ x.request.signature.s # ExpectedSignature(x) )
                      => x.response.status = 401
    /\ Cardinality({i \in 1..Len(stdout) : stdout[i][1] = VerifiedLine})
          = Cardinality({k \in 1..Len(exchanges) :
                            OnWebhookPath(exchanges[k])
                            /\ exchanges[k].response.status = 200})

\* webhook/README.md: MAX_SKEW_SECONDS of .env (default 5 minutes).
MAX_SKEW_SECONDS == 300

RECURSIVE ParseSeconds(_)
\* The number a text of decimal digits denotes.
ParseSeconds(s) ==
    IF s = <<>> THEN 0
    ELSE 10 * ParseSeconds(SubSeq(s, 1, Len(s) - 1)) + DigitValue(s[Len(s)])

\* C22: a correctly signed request whose x-blnk-timestamp is further than
\* MAX_SKEW_SECONDS from the current time is not answered with 200, so a
\* replay of a signed request after the skew window does not succeed.
C22_StaleRequestsRejected ==
    \A k \in 1..Len(exchanges) :
        LET x == exchanges[k]
        IN  (OnWebhookPath(x) /\ x.response.status = 200) =>
                Abs(x.at - ParseSeconds(x.request.timestamp.s)) <= MAX_SKEW_SECONDS

\* Transaction i of the fetched list is a self-transfer of the balance.
SelfTransfer(i) ==
    transactions[i].source = BALANCE_ID /\ transactions[i].destination = BALANCE_ID

\* C23: for a transaction whose source and destination are both the
\* queried balance id, getDirection returns DR (not CR, and it does not
\* throw) and getCounterpartyId returns the balance id itself, so the
\* name looked up is that of the balance, the run does not fail on the
\* transaction and its row, a DR row, is in the statement.
C23_SelfTransferIsDebit ==
    /\ \A i \in 1..Len(transactions) :
          SelfTransfer(i) =>
              /\ getDirection(transactions[i], BALANCE_ID) = DR
              /\ getCounterpartyId(transactions[i], BALANCE_ID) = BALANCE_ID
              /\ i <= Len(formattedTransactions) =>
                    /\ formattedTransactions[i].direction = DR
                    /\ RowLookup(i) = Call("search", BALANCE_ID)
              /\ (pc = "counterparty" /\ i = Len(formattedTransactions) + 1)
                    => RowLookup(i) = Call("search", BALANCE_ID)
              /\ (error = "ambiguous") => i # Len(formattedTransactions) + 1
              /\ Produced =>
                    /\ St.transactions[i].direction = DR
                    /\ St.transactions[i].reference = transactions[i].reference
    /\ Produced => Len(St.transactions) = Len(transactions)

\* A statement of two rows, the first the DR row of a self-transfer whose
\* name lookup was that of the balance itself, the second a CR row.
C23_Witness ==
    /\ Produced
    /\ Len(St.transactions) = 2
    /\ SelfTransfer(1)
    /\ St.transactions[1].direction = DR
    /\ RowLookup(1) = Call("search", BALANCE_ID)
    /\ St.transactions[2].direction = CR

\* The positions of the fetched list whose currency is the statement's.
InStatementCurrency == {i \in 1..Len(transactions) : transactions[i].currency = CURRENCY}

\* The first of them.
FirstInStatementCurrency ==
    CHOOSE i \in InStatementCurrency : \A j \in InStatementCurrency : i <= j

\* The four monetary fields as the two snapshots give them scaled by p.
ScaledBy(p) ==
    <<toLocaleString2(snapshots[1].balance, p),
      toLocaleString2(snapshots[2].balance, p),
      toLocaleString2(snapshots[2].credit_balance - snapshots[1].credit_balance, p),
      toLocaleString2(snapshots[2].debit_balance - snapshots[1].debit_balance, p)>>

PipelineCalls ==
    <<Call("query", BALANCE_ID), Call("search", BALANCE_ID),
      Call("snapshot", PERIOD_START), Call("snapshot", PERIOD_END)>>
    \o [i \in 1..Len(transactions) |-> Call("search", CounterpartyOf(i))]

\* C25: the calls of a request are made in pipeline order, each after the
\* answer to the one before: the transaction fetch completes first; the
\* snapshot endpoint is then called exactly twice, with periodStart and
\* then with periodEnd; rows are made only after both snapshots are
\* fetched, with exactly one name lookup per row, in row order; the
\* Statement is assembled after the last row and the exporter runs only
\* after assembly; the rows are in the order of the fetched list whatever
\* the name lookups answer.
C25_PipelineOrder ==
    /\ Len(calls) <= Len(PipelineCalls)
    /\ calls = SubSeq(PipelineCalls, 1, Len(calls))
    /\ Len(calls) >= 2 => (transactions # <<>> /\ pc # "query")
    /\ Len(snapshots) <= 2
    /\ Len(snapshots) >= 1 => Len(calls) >= 3
    /\ Len(snapshots) = 2 => Len(calls) >= 4
    /\ Len(calls) >= 5 => Len(snapshots) = 2
    /\ Len(formattedTransactions) > 0 =>
          /\ Len(calls) >= 4 + Len(formattedTransactions)
          /\ Len(calls) <= 4 + Len(formattedTransactions) + 1
    /\ Len(formattedTransactions) = 0 => Len(calls) <= 5
    /\ \A i \in 1..Len(formattedTransactions) :
          /\ i <= Len(transactions)
          /\ formattedTransactions[i].reference = transactions[i].reference
          /\ formattedTransactions[i].timestamp = formatTimestamp(transactions[i].effective_date)
          /\ formattedTransactions[i].amount = toLocaleString2(transactions[i].amount, 1)
    /\ Produced =>
          /\ Len(formattedTransactions) = Len(transactions)
          /\ Len(calls) = 4 + Len(transactions)
          /\ St.transactions = formattedTransactions
    /\ (files # {} \/ doc # NoDoc) => Produced

\* A statement of two rows has been exported: six calls were made, the
\* two name lookups of the rows were answered differently, and the rows
\* are in the order of the fetched list.
C25_Witness ==
    /\ Produced
    /\ files # {}
    /\ Len(calls) = 6
    /\ Len(St.transactions) = 2
    /\ labels[1] # labels[2]
    /\ St.transactions[1].reference = transactions[1].reference
    /\ St.transactions[2].reference = transactions[2].reference
    /\ St.transactions[1].reference # St.transactions[2].reference

\* The errors by which statement generation fails.
GenerationErrors == {"query", "no_transactions", "snapshot", "ambiguous", "type_error"}

\* C26: a run that succeeds has constructed one Statement and has run
\* exactly one exporter on it, once: the output directory holds one file,
\* of the chosen format and written from that Statement, and the other
\* exporter has left no trace; a run in which generation fails (empty
\* period, failure of either snapshot fetch, ambiguous balance role, or
\* any other error of generateStatement) has no Statement, has started no
\* exporter and has left the output directory as it was.
C26_AllOrNothingExport ==
    /\ Len(statement) <= 1
    /\ Cardinality(files) <= 1
    /\ exitCode = 0 =>
          /\ Produced
          /\ Cardinality(files) = 1
          /\ \A f \in files :
                /\ f.format = outputFormat
                /\ f.name = fileName(St, Extension(outputFormat))
                /\ outputFormat = "csv" => (f.csv = csvText(St) /\ doc = NoDoc)
                /\ outputFormat = "pdf" =>
                      /\ doc # NoDoc
                      /\ Len(f.pdf) = Len(St.transactions)
                      /\ \A i \in 1..Len(f.pdf) : f.pdf[i].cells = pdfRowData(St.transactions[i])
    /\ error \in GenerationErrors =>
          /\ ~Produced
          /\ files = {}
          /\ doc = NoDoc
          /\ exitCode = 1
    /\ ~Produced => (files = {} /\ doc = NoDoc)

\* Generation has failed on an ambiguous balance role after a first row
\* was made and both snapshots were fetched: nothing was exported.
C26_Witness ==
    /\ pc = "exited"
    /\ error = "ambiguous"
    /\ Len(snapshots) = 2
    /\ Len(formattedTransactions) = 1
    /\ Len(transactions) = 2
    /\ files = {}
    /\ doc = NoDoc

\* C27: in the PDF each row shows at most the first 20 characters of the
\* reference, the first 20 of the description and the first 15 of the
\* counterparty; the Statement handed to the exporter is left as
\* generateStatement made it, so that the CSV text of the same Statement
\* decodes to the full reference, description and counterparty.
C27_TruncationIsDisplayOnly ==
    \A f \in files :
        f.format = "pdf" =>
            /\ Len(f.pdf) = Len(transactions)
            /\ St.transactions = formattedTransactions
            /\ \A i \in 1..Len(f.pdf) :
                  LET cells == f.pdf[i].cells
                      ref   == transactions[i].reference
                      desc  == transactions[i].description
                      name  == labels[i]
                      record == csvDecode(csvText(St))[i + 1]
                  IN  /\ Len(cells[2]) = (IF Len(ref) < 20 THEN Len(ref) ELSE 20)
                      /\ cells[2] = SubSeq(ref, 1, Len(cells[2]))
                      /\ Len(cells[3]) = (IF Len(desc) < 20 THEN Len(desc) ELSE 20)
                      /\ cells[3] = SubSeq(desc, 1, Len(cells[3]))
                      /\ Len(cells[5]) = (IF Len(name) < 15 THEN Len(name) ELSE 15)
                      /\ cells[5] = SubSeq(name, 1, Len(cells[5]))
                      /\ St.transactions[i].reference = ref
                      /\ St.transactions[i].description = desc
                      /\ St.transactions[i].counterparty = name
                      /\ record[2] = ref
                      /\ record[3] = desc
                      /\ record[5] = name

\* A PDF has been written whose first row has a reference of 21
\* characters, a description of 22 and a counterparty name of 16, each cut
\* in the PDF and whole in the Statement.
C27_Witness ==
    \E f \in files :
        /\ f.format = "pdf"
        /\ Len(transactions[1].reference) = 21
        /\ Len(f.pdf[1].cells[2]) = 20
        /\ Len(transactions[1].description) > 21
        /\ Len(f.pdf[1].cells[3]) = 20
        /\ Len(labels[1]) = 16
        /\ Len(f.pdf[1].cells[5]) = 15
        /\ Len(St.transactions[1].reference) = 21
        /\ Len(St.transactions[1].counterparty) = 16

\* C28: in every statement, a row labelled "Deposit" by the placeholder
\* normalization has direction CR and a row labelled "Withdrawal" by it
\* has direction DR, for every transaction list and every outcome of the
\* name lookups, self-transfers and balances whose resolved label holds
\* the world pattern included.
C28_LabelAgreesWithDirection ==
    Produced =>
        \A i \in 1..Len(St.transactions) :
            WorldLabel(i) =>
                /\ St.transactions[i].counterparty = Deposit
                      => St.transactions[i].direction = CR
                /\ St.transactions[i].counterparty = Withdrawal
                      => St.transactions[i].direction = DR

\* The key of a request: balance id, periodStart and periodEnd.
RequestKey(st) == <<st.balance_id, st.period.start, st.period.end>>

\* The file f is the export of the Statement st in the chosen format.
IsExportOf(f, st) ==
    /\ f.name = fileName(st, Extension(outputFormat))
    /\ f.format = outputFormat
    /\ outputFormat = "csv" => f.csv = csvText(st)
    /\ outputFormat = "pdf" =>
          (Len(f.pdf) = 1 /\ f.pdf[1].cells = pdfRowData(st.transactions[1]))

\* C29: two requests of the same output format whose (balance id,
\* periodStart, periodEnd) differ are written to different file names, so
\* that, in whatever order the two exports happen, the export of each
\* request that has finished is in the output directory as that request
\* wrote it.
C29_NamesDoNotCollide ==
    RequestKey(statement[1]) # RequestKey(statement[2]) =>
        /\ fileName(statement[1], Extension(outputFormat))
              # fileName(statement[2], Extension(outputFormat))
        /\ \A k \in 1..2 :
              pc[k] = "exited" => \E f \in files : IsExportOf(f, statement[k])
        /\ Cardinality(files) = Cardinality({k \in 1..2 : pc[k] = "exited"})

\* Two requests of the same balance and the same periodStart that differ
\* in periodEnd only have both exported: the directory holds two files.
C29_Witness ==
    /\ pc = <<"exited", "exited">>
    /\ statement[1].balance_id = statement[2].balance_id
    /\ statement[1].period.start = statement[2].period.start
    /\ statement[1].period.end # statement[2].period.end
    /\ Cardinality(files) = 2

\* The --format value is neither absent nor one of csv and pdf.
OtherFormat ==
    env.formatArg \notin {<<>>, <<"c", "s", "v">>, <<"p", "d", "f">>}

\* C30: without a --format argument the CSV exporter is used and with
\* --format=pdf the PDF exporter; with any other --format value a run
\* whose configuration is complete fails with the "Invalid format" error
\* and a non-zero exit code, and no statement file is written.
C30_FormatSelection ==
    /\ env.formatArg = <<>> => \A f \in files : f.format = "csv"
    /\ env.formatArg = <<"p", "d", "f">> => \A f \in files : f.format = "pdf"
    /\ OtherFormat =>
          /\ files = {}
          /\ (pc = "exited" /\ ~configMissing(env))
                => (error = "invalid_format" /\ exitCode # 0)

====
